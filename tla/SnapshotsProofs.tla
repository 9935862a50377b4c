--------------------------- MODULE SnapshotsProofs ---------------------------
(***************************************************************************)
(* Proofs about Snapshots: the two storages stay sorted, the pointers of   *)
(* the client stay valid, the parts of two ticks never mix, the screen     *)
(* never goes back, and the client keeps every base it may still be sent   *)
(* as long as the network does not swap inputs.                            *)
(***************************************************************************)
EXTENDS Snapshots, TLAPS, SequenceTheorems, WellFoundedInduction

-----------------------------------------------------------------------------
(* The storage *)

Below == {p \in Nat \X Nat : p[1] < p[2]}

LEMMA BelowWellFounded == IsWellFoundedOn(Below, Nat)
BY NatLessThanWellFounded DEF OpToRel, Below

\* The least-number principle.
LEMMA LeastNumber ==
    ASSUME NEW T \in SUBSET Nat, T # {}
    PROVE  \E x \in T : \A y \in T : x <= y
<1>1. \E x \in T : \A y \in T : ~(<<y, x>> \in Below)
  BY BelowWellFounded, WFMin, Zenon
<1>2. ASSUME NEW x \in T, NEW y \in T, ~(<<y, x>> \in Below)
      PROVE  x <= y
  <2>1. <<y, x>> \in Nat \X Nat
    OBVIOUS
  <2>2. ~(y < x)
    BY <1>2, <2>1 DEF Below
  <2> QED
    BY <2>2
<1> QED
  BY <1>1, <1>2

\* A set of naturals with an upper bound has a greatest element: the least
\* distance from the bound gives it.
LEMMA GreatestNumber ==
    ASSUME NEW N \in Nat, NEW T \in SUBSET (0 .. N), T # {}
    PROVE  \E x \in T : \A y \in T : y <= x
<1> DEFINE D == {N - y : y \in T}
<1>1. D \in SUBSET Nat /\ D # {}
  <2>1. PICK y : y \in T
    OBVIOUS
  <2>2. N - y \in D
    BY <2>1
  <2>3. \A z \in T : N - z \in Nat
    OBVIOUS
  <2> QED
    BY <2>2, <2>3
<1> HIDE DEF D
<1>2. PICK d \in D : \A e \in D : d <= e
  BY <1>1, LeastNumber
<1> USE DEF D
<1>3. PICK x \in T : d = N - x
  OBVIOUS
<1>4. ASSUME NEW y \in T
      PROVE  y <= x
  <2>1. N - y \in D
    OBVIOUS
  <2>2. d <= N - y
    BY <1>2, <2>1
  <2> QED
    BY <1>3, <2>2
<1> QED
  BY <1>4

\* What PurgeUntil frees is older than its tick and at the front.
LEMMA PurgeUntilShifts ==
    ASSUME NEW store \in Seq(Tick), NEW tick \in Int
    PROVE  /\ PurgeUntil(store, tick) \in Seq(Tick)
           /\ \E n \in 0 .. Len(store) :
                 /\ \A i \in 1 .. n : store[i] < tick
                 /\ Len(PurgeUntil(store, tick)) = Len(store) - n
                 /\ \A i \in 1 .. Len(store) - n :
                       PurgeUntil(store, tick)[i] = store[i + n]
<1> DEFINE N == Len(store)
           old == {n \in 0 .. N : \A i \in 1 .. n : store[i] < tick}
           Greatest(n) == \A m \in old : m <= n
           n == CHOOSE n \in old : Greatest(n)
<1>1. N \in Nat
  BY LenProperties
<1>2. PurgeUntil(store, tick) = SubSeq(store, n + 1, N)
  BY DEF PurgeUntil
<1> HIDE DEF N
<1>3. 0 \in old
  BY <1>1
<1>4. old \in SUBSET (0 .. N) /\ old # {}
  BY <1>3
<1> HIDE DEF old
<1>5. \E x \in old : Greatest(x)
  BY <1>1, <1>4, GreatestNumber
<1> HIDE DEF Greatest
<1>6. n \in old
  BY <1>5
<1> USE DEF old
<1>7. n \in 0 .. N /\ \A i \in 1 .. n : store[i] < tick
  BY <1>6
<1> HIDE DEF n, old
<1> DEFINE rest == SubSeq(store, n + 1, N)
<1>8. /\ rest \in Seq(Tick)
      /\ Len(rest) = N - n
      /\ \A i \in 1 .. N - n : rest[i] = store[i + n]
  <2>1. \A i \in n + 1 .. N : store[i] \in Tick
    BY <1>1, <1>7, ElementOfSeq DEF N
  <2>2. /\ rest \in Seq(Tick)
        /\ Len(rest) = IF n + 1 <= N THEN N - (n + 1) + 1 ELSE 0
        /\ \A i \in 1 .. N - (n + 1) + 1 : rest[i] = store[(n + 1) + i - 1]
    BY <1>1, <1>7, <2>1, SubSeqProperties
  <2> HIDE DEF rest
  <2> QED
    BY <1>1, <1>7, <2>2
<1> QED
  BY <1>2, <1>7, <1>8 DEF N, rest

LEMMA TickNumbers ==
    /\ \A t \in Tick : t \in Int /\ t > 0
    /\ \A t \in Ack : t \in Int /\ (t \in Tick \/ t = -1)
BY SnapshotsAssumption DEF Tick, Ack

LEMMA StoreElements ==
    ASSUME NEW store \in Seq(Tick)
    PROVE  /\ Len(store) \in Nat
           /\ \A i \in 1 .. Len(store) : store[i] \in Tick /\ store[i] \in Int /\ store[i] > 0
<1>1. Len(store) \in Nat /\ \A i \in 1 .. Len(store) : store[i] \in Tick
  BY LenProperties, ElementOfSeq
<1> QED
  BY <1>1, TickNumbers

\* A purge keeps the order and all that is not older than its tick.
LEMMA PurgeUntilKeeps ==
    ASSUME NEW store \in Seq(Tick), NEW tick \in Int
    PROVE  /\ PurgeUntil(store, tick) \in Seq(Tick)
           /\ Increasing(store) => Increasing(PurgeUntil(store, tick))
           /\ \A t : Holds(PurgeUntil(store, tick), t) => Holds(store, t)
           /\ \A t \in Int : t >= tick /\ Holds(store, t) => Holds(PurgeUntil(store, tick), t)
<1> DEFINE r == PurgeUntil(store, tick)
<1>1. r \in Seq(Tick)
  BY PurgeUntilShifts
<1>2. PICK n \in 0 .. Len(store) : /\ \A i \in 1 .. n : store[i] < tick
                                   /\ Len(r) = Len(store) - n
                                   /\ \A i \in 1 .. Len(store) - n : r[i] = store[i + n]
  BY PurgeUntilShifts
<1> HIDE DEF r
<1>3. Len(store) \in Nat
  BY LenProperties
<1>4. Increasing(store) => Increasing(r)
  BY <1>2, <1>3 DEF Increasing
<1>5. \A t : Holds(r, t) => Holds(store, t)
  BY <1>2, <1>3 DEF Holds
<1>6. ASSUME NEW t \in Int, t >= tick, NEW i \in 1 .. Len(store), store[i] = t
      PROVE  Holds(r, t)
  <2>1. i \notin 1 .. n
    BY <1>2, <1>6
  <2>2. i - n \in 1 .. Len(r) /\ r[i - n] = store[i]
    BY <1>2, <1>3, <2>1
  <2> QED
    BY <1>6, <2>2 DEF Holds
<1> QED
  BY <1>1, <1>4, <1>5, <1>6 DEF r, Holds

\* A newer tick goes to the end.
LEMMA AddKeeps ==
    ASSUME NEW store \in Seq(Tick), NEW tick \in Tick
    PROVE  /\ Add(store, tick) \in Seq(Tick)
           /\ Len(Add(store, tick)) = Len(store) + 1
           /\ \A i \in 1 .. Len(store) : Add(store, tick)[i] = store[i]
           /\ Add(store, tick)[Len(store) + 1] = tick
           /\ \A t : Holds(Add(store, tick), t) <=> Holds(store, t) \/ t = tick
           /\ Increasing(store) /\ (\A i \in 1 .. Len(store) : store[i] < tick)
                 => Increasing(Add(store, tick))
<1> DEFINE a == Add(store, tick)
<1>1. /\ a \in Seq(Tick)
      /\ Len(a) = Len(store) + 1
      /\ \A i \in 1 .. Len(store) : a[i] = store[i]
      /\ a[Len(store) + 1] = tick
  BY AppendProperties DEF Add
<1> HIDE DEF a
<1>2. Len(store) \in Nat
  BY LenProperties
<1>3. \A t : Holds(a, t) <=> Holds(store, t) \/ t = tick
  BY <1>1, <1>2 DEF Holds
<1>4. ASSUME Increasing(store), \A i \in 1 .. Len(store) : store[i] < tick
      PROVE  Increasing(a)
  <2>1. ASSUME NEW i \in 1 .. Len(a), NEW j \in 1 .. Len(a), i < j
        PROVE  a[i] < a[j]
    <3>1. i \in 1 .. Len(store) /\ a[i] = store[i]
      BY <1>1, <1>2, <2>1
    <3>2. CASE j = Len(store) + 1
      BY <1>1, <1>4, <3>1, <3>2
    <3>3. CASE j \in 1 .. Len(store)
      BY <1>1, <1>4, <2>1, <3>1, <3>3 DEF Increasing
    <3> QED
      BY <1>1, <1>2, <3>2, <3>3
  <2> QED
    BY <2>1 DEF Increasing
<1> QED
  BY <1>1, <1>3, <1>4 DEF a

-----------------------------------------------------------------------------
(* Types *)

Server == [tick : 0 .. MaxTick, store : Seq(Tick), lastAcked : Ack,
           rate : {"INIT", "FULL", "RECOVER"}]

Client == [store : Seq(Tick), recvTick : 0 .. MaxTick, ackTick : Ack,
           data : [0 .. MaxParts - 1 -> 0 .. MaxTick], crcErrors : 0 .. MaxErrors,
           prev : 0 .. MaxTick, current : 0 .. MaxTick, received : 0 .. 2]

LEMMA TypeParts ==
    TypeOK <=> /\ server \in Server
               /\ client \in Client
               /\ parts \subseteq Message /\ \A m \in parts : m.part < m.num \/ m.part = 0
               /\ inputs \in Seq(Ack)
               /\ swapped \in BOOLEAN
BY DEF TypeOK, Server, Client

\* Without takes the element out of its place.
LEMMA WithoutType ==
    ASSUME NEW S, NEW q \in Seq(S), NEW i \in 1 .. Len(q)
    PROVE  /\ Without(q, i) \in Seq(S)
           /\ Len(Without(q, i)) = Len(q) - 1
           /\ \A j \in 1 .. Len(q) - 1 :
                 Without(q, i)[j] = IF j < i THEN q[j] ELSE q[j + 1]
<1> DEFINE before == SubSeq(q, 1, i - 1)
           after == SubSeq(q, i + 1, Len(q))
<1>1. Len(q) \in Nat
  BY LenProperties
<1>2. \A j \in 1 .. Len(q) : q[j] \in S
  BY ElementOfSeq
<1>3. /\ before \in Seq(S)
      /\ Len(before) = i - 1
      /\ \A j \in 1 .. i - 1 : before[j] = q[j]
  <2>1. \A j \in 1 .. i - 1 : q[j] \in S
    BY <1>1, <1>2
  <2>2. /\ before \in Seq(S)
        /\ Len(before) = IF 1 <= i - 1 THEN (i - 1) - 1 + 1 ELSE 0
        /\ \A j \in 1 .. (i - 1) - 1 + 1 : before[j] = q[1 + j - 1]
    BY <1>1, <2>1, SubSeqProperties
  <2> HIDE DEF before
  <2> QED
    BY <1>1, <2>2
<1>4. /\ after \in Seq(S)
      /\ Len(after) = Len(q) - i
      /\ \A j \in 1 .. Len(q) - i : after[j] = q[i + j]
  <2>1. \A j \in i + 1 .. Len(q) : q[j] \in S
    BY <1>1, <1>2
  <2>2. /\ after \in Seq(S)
        /\ Len(after) = IF i + 1 <= Len(q) THEN Len(q) - (i + 1) + 1 ELSE 0
        /\ \A j \in 1 .. Len(q) - (i + 1) + 1 : after[j] = q[(i + 1) + j - 1]
    BY <1>1, <2>1, SubSeqProperties
  <2> HIDE DEF after
  <2>3. Len(after) = Len(q) - i
    BY <1>1, <2>2
  <2>4. ASSUME NEW j \in 1 .. Len(q) - i
        PROVE  after[j] = q[i + j]
    <3>1. j \in 1 .. Len(q) - (i + 1) + 1 /\ (i + 1) + j - 1 = i + j
      BY <1>1
    <3>2. after[j] = q[(i + 1) + j - 1]
      BY <2>2, <3>1
    <3> QED
      BY <3>1, <3>2
  <2> QED
    BY <2>2, <2>3, <2>4
<1> HIDE DEF before, after
<1>5. Without(q, i) = before \o after
  BY DEF Without, before, after
<1>6. /\ before \o after \in Seq(S)
      /\ Len(before \o after) = Len(before) + Len(after)
      /\ \A j \in 1 .. Len(before) + Len(after) :
            (before \o after)[j] = IF j <= Len(before) THEN before[j] ELSE after[j - Len(before)]
  BY <1>3, <1>4, ConcatProperties
<1> QED
  BY <1>1, <1>3, <1>4, <1>5, <1>6

\* What PurgeTick returns is the least of what is still needed.
LEMMA PurgeTickLeast ==
    ASSUME TypeOK, NEW base \in Ack
    PROVE  /\ PurgeTick(base) \in Int
           /\ PurgeTick(base) <= base
           /\ client.prev # 0 => PurgeTick(base) <= client.prev
           /\ client.current # 0 => PurgeTick(base) <= client.current
           /\ client.prev = 0 /\ client.current = 0 => PurgeTick(base) = base
<1> DEFINE needed == {base} \cup ({client.prev, client.current} \ {0})
           Least(t) == \A u \in needed : t <= u
<1>1. base \in Int /\ client.prev \in Int /\ client.current \in Int
  BY SnapshotsAssumption DEF TypeOK, Ack, Tick
<1>2. \E t \in needed : Least(t)
  BY <1>1
<1>3. PurgeTick(base) = CHOOSE t \in needed : Least(t)
  BY DEF PurgeTick
<1>4. PurgeTick(base) \in needed /\ Least(PurgeTick(base))
  <2> HIDE DEF needed, Least
  <2> QED
    BY <1>2, <1>3
<1> QED
  BY <1>1, <1>4

\* What the client has taken so far.
LEMMA ReceivedType ==
    ASSUME TypeOK, NEW m \in Message
    PROVE  /\ Received(m) \in Client
           /\ Received(m).recvTick = m.tick
           /\ Received(m).data = [Begun(m) EXCEPT ![m.part] = m.tick]
           /\ Received(m).store = client.store
           /\ Received(m).ackTick = client.ackTick
           /\ Received(m).crcErrors = client.crcErrors
           /\ Received(m).prev = client.prev
           /\ Received(m).current = client.current
           /\ Received(m).received = client.received
<1>1. client \in Client
  BY TypeParts
<1>2. m.tick \in 0 .. MaxTick
  BY SnapshotsAssumption DEF Message, Tick
<1>3. Begun(m) \in [0 .. MaxParts - 1 -> 0 .. MaxTick]
  BY <1>1, SnapshotsAssumption DEF Begun, NoParts, Client
<1>4. [Begun(m) EXCEPT ![m.part] = m.tick] \in [0 .. MaxParts - 1 -> 0 .. MaxTick]
  BY <1>2, <1>3
<1> QED
  BY <1>1, <1>2, <1>4 DEF Received, Client

\* What a right snapshot does to the client.
LEMMA VerifiedType ==
    ASSUME TypeOK, NEW m \in Message
    PROVE  LET v == Verified(Received(m), m)
           IN  /\ v \in Client
               /\ v.data = NoParts
               /\ v.store = PurgeUntil(client.store, PurgeTick(m.base))
               /\ v.crcErrors = IF client.crcErrors > 0 THEN client.crcErrors - 1 ELSE 0
               /\ v.recvTick = m.tick
               /\ v.ackTick = client.ackTick
               /\ v.prev = client.prev
               /\ v.current = client.current
               /\ v.received = client.received
<1> DEFINE c == Received(m)
           purged == PurgeUntil(client.store, PurgeTick(m.base))
           errors == IF client.crcErrors > 0 THEN client.crcErrors - 1 ELSE 0
<1>1. /\ c \in Client
      /\ c.recvTick = m.tick
      /\ c.store = client.store
      /\ c.ackTick = client.ackTick
      /\ c.crcErrors = client.crcErrors
      /\ c.prev = client.prev
      /\ c.current = client.current
      /\ c.received = client.received
  BY ReceivedType
<1> HIDE DEF c
<1>2. client \in Client
  BY TypeParts
<1>3. purged \in Seq(Tick)
  <2>1. client.store \in Seq(Tick)
    BY <1>2 DEF Client
  <2>2. m.base \in Ack
    BY DEF Message
  <2>3. PurgeTick(m.base) \in Int
    BY <2>2, PurgeTickLeast
  <2> QED
    BY <2>1, <2>3, PurgeUntilShifts
<1>4. Verified(c, m) = [c EXCEPT !.data = NoParts, !.store = purged, !.crcErrors = errors]
  BY <1>1 DEF Verified
<1>5. errors \in 0 .. MaxErrors
  BY <1>2, SnapshotsAssumption DEF Client
<1>6. NoParts \in [0 .. MaxParts - 1 -> 0 .. MaxTick]
  BY SnapshotsAssumption DEF NoParts
<1> HIDE DEF purged, errors
<1>7. LET v == Verified(c, m)
      IN  /\ v \in Client
          /\ v.data = NoParts
          /\ v.store = purged
          /\ v.crcErrors = errors
          /\ v.recvTick = m.tick
          /\ v.ackTick = client.ackTick
          /\ v.prev = client.prev
          /\ v.current = client.current
          /\ v.received = client.received
  BY <1>1, <1>3, <1>4, <1>5, <1>6 DEF Client
<1> QED
  BY <1>7 DEF purged, errors, c

\* What storing a snapshot does to the client.
LEMMA StoredType ==
    ASSUME NEW c \in Client, NEW m \in Message
    PROVE  LET d == Stored(c, m)
           IN  /\ d \in Client
               /\ d.store = Add(c.store, m.tick)
               /\ d.ackTick = m.tick
               /\ d.received = IF c.received < 2 THEN c.received + 1 ELSE 2
               /\ c.received = 1 => /\ d.prev = d.store[1]
                                    /\ d.current = d.store[Len(d.store)]
               /\ c.received # 1 => /\ d.prev = c.prev
                                    /\ d.current = c.current
               /\ d.recvTick = c.recvTick
               /\ d.data = c.data
               /\ d.crcErrors = c.crcErrors
<1> DEFINE store == Add(c.store, m.tick)
           second == c.received = 1
           received == IF c.received < 2 THEN c.received + 1 ELSE 2
           prev == IF second THEN store[1] ELSE c.prev
           current == IF second THEN store[Len(store)] ELSE c.current
<1>1. m.tick \in Tick /\ c.store \in Seq(Tick)
  BY DEF Message, Client
<1>2. store \in Seq(Tick) /\ Len(store) = Len(c.store) + 1 /\ Len(c.store) \in Nat
  BY <1>1, AddKeeps, LenProperties
<1>3. Stored(c, m) = [c EXCEPT !.store = store, !.ackTick = m.tick, !.received = received,
                               !.prev = prev, !.current = current]
  BY DEF Stored
<1> HIDE DEF store
<1>4. store[1] \in Tick /\ store[Len(store)] \in Tick
  BY <1>2, ElementOfSeq
<1>5. prev \in 0 .. MaxTick /\ current \in 0 .. MaxTick
  BY <1>4, SnapshotsAssumption DEF Client, Tick
<1>6. received \in 0 .. 2
  BY DEF Client
<1>7. m.tick \in Ack
  BY <1>1 DEF Ack
<1> HIDE DEF prev, current, received
<1>8. LET d == Stored(c, m)
      IN  /\ d \in Client
          /\ d.store = store
          /\ d.ackTick = m.tick
          /\ d.received = received
          /\ d.prev = prev
          /\ d.current = current
          /\ d.recvTick = c.recvTick
          /\ d.data = c.data
          /\ d.crcErrors = c.crcErrors
  BY <1>2, <1>3, <1>5, <1>6, <1>7 DEF Client
<1> QED
  BY <1>8 DEF store, prev, current, received

\* What the client does with a part, in the order of its branches.
Kept(m) == ~Complete(Received(m), m) /\ client' = Received(m) /\ UNCHANGED inputs

NoBase(m) ==
    /\ Complete(Received(m), m)
    /\ m.base >= 0 /\ ~Holds(client.store, m.base)
    /\ Discarded(Received(m), TRUE)

Wrong(m) ==
    /\ Complete(Received(m), m) /\ ~Right(Received(m), m)
    /\ \E errors \in 0 .. MaxErrors, lost \in BOOLEAN :
          Discarded([Received(m) EXCEPT !.crcErrors = errors], lost)

Taken(m) ==
    /\ Complete(Received(m), m) /\ Right(Received(m), m)
    /\ m.base >= 0 => Holds(client.store, m.base)
    /\ client' \in {Verified(Received(m), m), Stored(Verified(Received(m), m), m)}
    /\ UNCHANGED inputs

LEMMA ReceivePartCases ==
    ASSUME TypeOK, NEW m \in parts, ReceivePart(m)
    PROVE  /\ m \in Message
           /\ Acceptable(client, m)
           /\ parts' = {n \in parts : Acceptable(client', n)}
           /\ UNCHANGED <<server, swapped>>
           /\ Kept(m) \/ NoBase(m) \/ Wrong(m) \/ Taken(m)
<1>1. m \in Message
  BY DEF TypeOK
<1>2. /\ Received(m).store = client.store
      /\ Received(m).crcErrors = client.crcErrors
  BY <1>1, ReceivedType
<1> DEFINE c == Received(m)
           baseFound == m.base >= 0 => Holds(c.store, m.base)
           many == c.crcErrors = MaxErrors
<1>3. /\ Acceptable(client, m)
      /\ \/ ~Complete(c, m) /\ client' = c /\ UNCHANGED inputs
         \/ Complete(c, m) /\ ~baseFound /\ Discarded(c, TRUE)
         \/ /\ Complete(c, m) /\ baseFound /\ Right(c, m)
            /\ client' = Stored(Verified(c, m), m) \/ client' = Verified(c, m)
            /\ UNCHANGED inputs
         \/ /\ Complete(c, m) /\ baseFound /\ ~Right(c, m)
            /\ Discarded([c EXCEPT !.crcErrors = IF many THEN 0 ELSE @ + 1], many)
      /\ parts' = {n \in parts : Acceptable(client', n)}
      /\ UNCHANGED <<server, swapped>>
  BY DEF ReceivePart
<1>4. ASSUME ~Complete(c, m) /\ client' = c /\ UNCHANGED inputs
      PROVE  Kept(m)
  BY <1>4 DEF Kept
<1>5. ASSUME Complete(c, m) /\ ~baseFound /\ Discarded(c, TRUE)
      PROVE  NoBase(m)
  BY <1>2, <1>5 DEF NoBase
<1>6. ASSUME Complete(c, m) /\ baseFound /\ Right(c, m),
             client' = Stored(Verified(c, m), m) \/ client' = Verified(c, m),
             UNCHANGED inputs
      PROVE  Taken(m)
  BY <1>2, <1>6 DEF Taken
<1>7. ASSUME Complete(c, m) /\ baseFound /\ ~Right(c, m),
             Discarded([c EXCEPT !.crcErrors = IF many THEN 0 ELSE @ + 1], many)
      PROVE  Wrong(m)
  <2> DEFINE errors == IF many THEN 0 ELSE c.crcErrors + 1
  <2>1. errors \in 0 .. MaxErrors
    BY <1>2, SnapshotsAssumption DEF TypeOK
  <2>2. Discarded([c EXCEPT !.crcErrors = errors], many)
    BY <1>7
  <2>3. many \in BOOLEAN
    OBVIOUS
  <2>4. Complete(c, m) /\ ~Right(c, m)
    BY <1>7
  <2> HIDE DEF c, many, errors
  <2>5. \E e \in 0 .. MaxErrors, lost \in BOOLEAN : Discarded([c EXCEPT !.crcErrors = e], lost)
    BY <2>1, <2>2, <2>3
  <2> QED
    BY <2>4, <2>5 DEF Wrong, c
<1> QED
  BY <1>1, <1>3, <1>4, <1>5, <1>6, <1>7

LEMMA SendInputType ==
    ASSUME TypeOK, NEW ack \in Ack, SendInput(ack)
    PROVE  /\ inputs' \in Seq(Ack)
           /\ \/ inputs' = inputs
              \/ client.received = 2 /\ inputs' = Append(inputs, ack)
BY AppendProperties DEF TypeOK, SendInput

\* What the client throws away.
LEMMA DiscardedType ==
    ASSUME TypeOK, NEW c \in Client, NEW lost \in BOOLEAN, Discarded(c, lost)
    PROVE  /\ client' \in Client
           /\ inputs' \in Seq(Ack)
           /\ client'.data = NoParts
           /\ client'.ackTick \in {c.ackTick, -1}
           /\ client'.store = c.store
           /\ client'.recvTick = c.recvTick
           /\ client'.crcErrors = c.crcErrors
           /\ client'.prev = c.prev
           /\ client'.current = c.current
           /\ client'.received = c.received
<1>1. -1 \in Ack
  BY DEF Ack
<1>2. NoParts \in [0 .. MaxParts - 1 -> 0 .. MaxTick]
  BY SnapshotsAssumption DEF NoParts
<1>3. inputs' \in Seq(Ack)
  <2>1. CASE lost
    BY <1>1, <2>1, SendInputType DEF Discarded
  <2>2. CASE ~lost
    BY <2>2 DEF Discarded, TypeOK
  <2> QED
    BY <2>1, <2>2
<1>4. client' = [c EXCEPT !.data = NoParts, !.ackTick = IF lost THEN -1 ELSE c.ackTick]
  BY DEF Discarded
<1> QED
  BY <1>1, <1>2, <1>3, <1>4 DEF Client

LEMMA TypeInit == Init => TypeOK
<1> SUFFICES ASSUME Init PROVE TypeOK
  OBVIOUS
<1>1. -1 \in Ack
  BY DEF Ack
<1>2. NoParts \in [0 .. MaxParts - 1 -> 0 .. MaxTick]
  BY SnapshotsAssumption DEF NoParts
<1>3. <<>> \in Seq(Tick) /\ <<>> \in Seq(Ack)
  OBVIOUS
<1>4. 0 \in 0 .. MaxTick /\ 0 \in 0 .. MaxErrors
  BY SnapshotsAssumption
<1>5. server \in Server
  BY <1>1, <1>3, <1>4 DEF Init, Server
<1>6. client \in Client
  BY <1>1, <1>2, <1>3, <1>4 DEF Init, Client
<1> QED
  BY <1>3, <1>5, <1>6, TypeParts DEF Init

\* The messages of a snapshot, and the storage it is in.
LEMMA DoSnapshotType ==
    ASSUME TypeOK, NEW num \in 0 .. MaxParts, DoSnapshot(num)
    PROVE  LET tick == server.tick + 1
               base == IF Holds(server'.store, server.lastAcked) THEN server.lastAcked ELSE -1
               new == {[tick |-> tick, base |-> base, num |-> num, part |-> p] : p \in Packets(num)}
           IN  /\ tick \in Tick
               /\ server' \in Server
               /\ server'.tick = tick
               /\ server'.lastAcked = server.lastAcked
               /\ server'.store = Add(PurgeUntil(server.store, tick - Keep), tick)
               /\ new \subseteq Message /\ \A m \in new : m.part < m.num \/ m.part = 0
               /\ parts' \in {parts \cup new, parts}
               /\ UNCHANGED <<client, inputs, swapped>>
<1> DEFINE tick == server.tick + 1
           store == Add(PurgeUntil(server.store, tick - Keep), tick)
           known == Holds(store, server.lastAcked)
           base == IF known THEN server.lastAcked ELSE -1
           new == {[tick |-> tick, base |-> base, num |-> num, part |-> p] : p \in Packets(num)}
           rate == IF ~known /\ server.rate = "FULL" THEN "RECOVER" ELSE server.rate
<1>1. server \in Server
  BY TypeParts
<1>2. tick \in Tick /\ tick \in Int /\ tick \in 0 .. MaxTick
  BY <1>1, SnapshotsAssumption DEF DoSnapshot, Tick, Server
<1>3. store \in Seq(Tick)
  <2>1. tick - Keep \in Int
    BY <1>2, SnapshotsAssumption
  <2>2. PurgeUntil(server.store, tick - Keep) \in Seq(Tick)
    BY <1>1, <2>1, PurgeUntilShifts DEF Server
  <2> QED
    BY <1>2, <2>2, AddKeeps
<1>4. base \in Ack
  BY <1>1 DEF Server, Ack
<1>5. Packets(num) \subseteq 0 .. MaxParts - 1 /\ \A p \in Packets(num) : p < num \/ p = 0
  BY SnapshotsAssumption DEF Packets
<1>6. server' = [server EXCEPT !.tick = tick, !.store = store, !.rate = rate]
  BY DEF DoSnapshot
<1>7. /\ parts' \in {parts \cup new, parts}
      /\ UNCHANGED <<client, inputs, swapped>>
  BY DEF DoSnapshot
<1>8. rate \in {"INIT", "FULL", "RECOVER"}
  BY <1>1 DEF Server
<1> HIDE DEF tick, store, base, rate
<1>9. new \subseteq Message /\ \A m \in new : m.part < m.num \/ m.part = 0
  <2>1. ASSUME NEW p \in Packets(num)
        PROVE  [tick |-> tick, base |-> base, num |-> num, part |-> p] \in Message
    BY <1>2, <1>4, <1>5, <2>1 DEF Message
  <2>2. ASSUME NEW m \in new
        PROVE  m \in Message /\ (m.part < m.num \/ m.part = 0)
    <3>1. PICK p \in Packets(num) :
             m = [tick |-> tick, base |-> base, num |-> num, part |-> p]
      OBVIOUS
    <3> QED
      BY <1>5, <2>1, <3>1
  <2> QED
    BY <2>2
<1>10. /\ server' \in Server
       /\ server'.tick = tick
       /\ server'.lastAcked = server.lastAcked
       /\ server'.store = store
  BY <1>1, <1>2, <1>3, <1>6, <1>8 DEF Server
<1> HIDE DEF new
<1>11. /\ tick \in Tick
       /\ server' \in Server
       /\ server'.tick = tick
       /\ server'.lastAcked = server.lastAcked
       /\ server'.store = store
       /\ base = IF Holds(server'.store, server.lastAcked) THEN server.lastAcked ELSE -1
       /\ new \subseteq Message /\ \A m \in new : m.part < m.num \/ m.part = 0
       /\ parts' \in {parts \cup new, parts}
       /\ UNCHANGED <<client, inputs, swapped>>
  BY <1>2, <1>7, <1>9, <1>10 DEF base
<1> QED
  BY <1>11 DEF new, tick, store

LEMMA HandleInputType ==
    ASSUME TypeOK, NEW i \in 1 .. Len(inputs), HandleInput(i)
    PROVE  /\ server' \in Server
           /\ server'.tick = server.tick
           /\ server'.store = server.store
           /\ server'.lastAcked = inputs[i]
           /\ inputs' = Without(inputs, i)
           /\ inputs' \in Seq(Ack)
           /\ swapped' \in BOOLEAN /\ swapped' = (swapped \/ i > 1)
           /\ UNCHANGED <<client, parts>>
<1>1. server \in Server /\ inputs \in Seq(Ack)
  BY TypeParts
<1>2. inputs[i] \in Ack
  BY <1>1, ElementOfSeq
<1>3. Without(inputs, i) \in Seq(Ack)
  BY <1>1, WithoutType
<1>4. swapped' \in BOOLEAN /\ swapped' = (swapped \/ i > 1)
  BY DEF HandleInput
<1> QED
  BY <1>1, <1>2, <1>3, <1>4 DEF HandleInput, Server

LEMMA NextSnapshotType ==
    ASSUME TypeOK, NextSnapshot
    PROVE  /\ client' \in Client
           /\ client.received = 2
           /\ \E i \in 1 .. Len(client.store) - 1 :
                 /\ client.store[i] = client.current
                 /\ client' = [client EXCEPT !.prev = client.current,
                                             !.current = client.store[i + 1]]
           /\ UNCHANGED <<server, parts, inputs, swapped>>
<1>1. client \in Client
  BY TypeParts
<1>2. PICK i \in 1 .. Len(client.store) - 1 :
         /\ client.store[i] = client.current
         /\ client' = [client EXCEPT !.prev = client.current, !.current = client.store[i + 1]]
  BY DEF NextSnapshot
<1>3. Len(client.store) \in Nat
  BY <1>1, LenProperties DEF Client
<1>4. client.store[i + 1] \in Tick
  BY <1>1, <1>2, <1>3, ElementOfSeq DEF Client
<1>5. client.store[i + 1] \in 0 .. MaxTick
  BY <1>4 DEF Tick
<1>6. client' \in Client
  BY <1>1, <1>2, <1>5 DEF Client
<1> QED
  BY <1>2, <1>6 DEF NextSnapshot

\* The client after a part, whatever became of it.
LEMMA ReceivePartType ==
    ASSUME TypeOK, NEW m \in parts, ReceivePart(m)
    PROVE  client' \in Client /\ inputs' \in Seq(Ack)
<1>1. m \in Message /\ (Kept(m) \/ NoBase(m) \/ Wrong(m) \/ Taken(m))
  BY ReceivePartCases
<1>2. Received(m) \in Client /\ inputs \in Seq(Ack)
  BY <1>1, ReceivedType, TypeParts
<1>3. CASE Kept(m)
  BY <1>2, <1>3 DEF Kept
<1>4. CASE NoBase(m)
  BY <1>2, <1>4, DiscardedType DEF NoBase
<1>5. CASE Wrong(m)
  <2>1. PICK errors \in 0 .. MaxErrors, lost \in BOOLEAN :
           Discarded([Received(m) EXCEPT !.crcErrors = errors], lost)
    BY <1>5 DEF Wrong
  <2>2. [Received(m) EXCEPT !.crcErrors = errors] \in Client
    BY <1>2 DEF Client
  <2> QED
    BY <2>1, <2>2, DiscardedType
<1>6. CASE Taken(m)
  <2>1. Verified(Received(m), m) \in Client
    BY <1>1, VerifiedType
  <2>2. Stored(Verified(Received(m), m), m) \in Client
    BY <1>1, <2>1, StoredType
  <2> QED
    BY <1>2, <1>6, <2>1, <2>2 DEF Taken
<1> QED
  BY <1>1, <1>3, <1>4, <1>5, <1>6

LEMMA TypeStep == TypeOK /\ [Next]_vars => TypeOK'
<1> SUFFICES ASSUME TypeOK, [Next]_vars
             PROVE  /\ server' \in Server
                    /\ client' \in Client
                    /\ parts' \subseteq Message /\ \A m \in parts' : m.part < m.num \/ m.part = 0
                    /\ inputs' \in Seq(Ack)
                    /\ swapped' \in BOOLEAN
  BY DEF TypeOK, Server, Client
<1> DEFINE Goal == /\ server' \in Server
                   /\ client' \in Client
                   /\ parts' \subseteq Message /\ \A m \in parts' : m.part < m.num \/ m.part = 0
                   /\ inputs' \in Seq(Ack)
                   /\ swapped' \in BOOLEAN
<1> USE TypeParts
<1>1. ASSUME NEW num \in 0 .. MaxParts, DoSnapshot(num)
      PROVE  Goal
  <2>1. server' \in Server /\ UNCHANGED <<client, inputs, swapped>>
    BY <1>1, DoSnapshotType
  <2>2. PICK new : /\ new \subseteq Message /\ \A m \in new : m.part < m.num \/ m.part = 0
                   /\ parts' \in {parts \cup new, parts}
    BY <1>1, DoSnapshotType
  <2> QED
    BY <2>1, <2>2
<1>2. ASSUME SkipTick PROVE Goal
  <2>1. server' \in Server
    BY <1>2, SnapshotsAssumption, SMTT(20) DEF SkipTick, Server
  <2> QED
    BY <1>2, <2>1 DEF SkipTick
<1>3. ASSUME NEW i \in 1 .. Len(inputs), HandleInput(i)
      PROVE  Goal
  BY <1>3, HandleInputType
<1>4. ASSUME NEW i \in 1 .. Len(inputs), LoseInput(i)
      PROVE  Goal
  BY <1>4, WithoutType DEF LoseInput
<1>5. ASSUME NEW m \in parts, ReceivePart(m)
      PROVE  Goal
  <2>1. /\ client' \in Client /\ inputs' \in Seq(Ack)
        /\ parts' \subseteq parts
        /\ UNCHANGED <<server, swapped>>
    BY <1>5, ReceivePartType, ReceivePartCases
  <2> QED
    BY <2>1
<1>6. ASSUME NEW m \in parts, LosePart(m)
      PROVE  Goal
  BY <1>6 DEF LosePart
<1>7. ASSUME ClientInput PROVE Goal
  <2>1. client.ackTick \in Ack
    BY DEF Client
  <2> QED
    BY <1>7, <2>1, SendInputType DEF ClientInput
<1>8. ASSUME NextSnapshot PROVE Goal
  BY <1>8, NextSnapshotType
<1>9. ASSUME UNCHANGED vars PROVE Goal
  BY <1>9 DEF vars
<1> QED
  BY <1>1, <1>2, <1>3, <1>4, <1>5, <1>6, <1>7, <1>8, <1>9 DEF Next

\* Every value has its type.
THEOREM TypeCorrect == Spec => []TypeOK
BY TypeInit, TypeStep, PTL DEF Spec

-----------------------------------------------------------------------------
(* Each end by itself *)

\* What is in the server's storage was made before now.
ServerInv(s) ==
    /\ Increasing(s.store)
    /\ \A i \in 1 .. Len(s.store) : s.store[i] <= s.tick

\* The snapshots on the screen are neighbours in the storage, once there are two.
Shown(c) ==
    IF c.received < 2
    THEN Len(c.store) = c.received /\ c.prev = 0 /\ c.current = 0
    ELSE \E i \in 1 .. Len(c.store) - 1 : c.prev = c.store[i] /\ c.current = c.store[i + 1]

\* What is stored is older than what is being received, or is just that, and
\* acknowledged; what is being received is of one tick.
ClientInv(c) ==
    /\ Increasing(c.store)
    /\ \A i \in 1 .. Len(c.store) :
          c.store[i] <= c.recvTick /\ (c.store[i] = c.recvTick => c.ackTick = c.recvTick)
    /\ \A p \in 0 .. MaxParts - 1 : c.data[p] # 0 => c.data[p] = c.recvTick
    /\ c.crcErrors = 0
    /\ Shown(c)

StorageInv == TypeOK /\ ServerInv(server) /\ ClientInv(client)

\* A part that the client takes is newer than all that it has stored, and with it
\* the parts are still of one tick.
LEMMA ReceivedInv ==
    ASSUME StorageInv, NEW m \in Message, Acceptable(client, m)
    PROVE  /\ \A i \in 1 .. Len(client.store) : client.store[i] < m.tick
           /\ ClientInv(Received(m))
<1> DEFINE c == Received(m)
<1>1. /\ client \in Client
      /\ m.tick \in Int /\ m.tick # 0 /\ m.part \in 0 .. MaxParts - 1
      /\ client.recvTick \in Int /\ client.ackTick \in Int
      /\ Len(client.store) \in Nat
      /\ \A i \in 1 .. Len(client.store) : client.store[i] \in Int
  <2>1. client \in Client
    BY TypeParts DEF StorageInv
  <2>2. /\ Len(client.store) \in Nat
        /\ \A i \in 1 .. Len(client.store) : client.store[i] \in Int
    BY <2>1, StoreElements DEF Client
  <2>3. m.tick \in Int /\ m.tick # 0
    BY TickNumbers DEF Message
  <2>4. client.recvTick \in Int /\ client.ackTick \in Int
    BY <2>1, TickNumbers DEF Client
  <2>5. m.part \in 0 .. MaxParts - 1
    BY DEF Message
  <2> QED
    BY <2>1, <2>2, <2>3, <2>4, <2>5
<1>2. m.tick >= client.recvTick /\ m.tick > client.ackTick
  BY DEF Acceptable
<1>3. ASSUME NEW i \in 1 .. Len(client.store)
      PROVE  client.store[i] < m.tick
  BY <1>1, <1>2 DEF StorageInv, ClientInv
<1>4. /\ c.recvTick = m.tick
      /\ c.data = [Begun(m) EXCEPT ![m.part] = m.tick]
      /\ c.store = client.store
      /\ c.crcErrors = client.crcErrors
      /\ c.prev = client.prev
      /\ c.current = client.current
      /\ c.received = client.received
  BY ReceivedType DEF StorageInv
<1> HIDE DEF c
<1>5. ASSUME NEW p \in 0 .. MaxParts - 1, c.data[p] # 0
      PROVE  c.data[p] = c.recvTick
  <2>1. Begun(m) \in [0 .. MaxParts - 1 -> 0 .. MaxTick]
    BY <1>1, SnapshotsAssumption DEF Begun, NoParts, Client
  <2>2. Begun(m)[p] # 0 => Begun(m)[p] = m.tick
    BY <1>1 DEF Begun, NoParts, StorageInv, ClientInv
  <2> QED
    BY <1>1, <1>4, <1>5, <2>1, <2>2
<1>6. Shown(c)
  BY <1>4 DEF StorageInv, ClientInv, Shown
<1>7. ClientInv(c)
  BY <1>1, <1>3, <1>4, <1>5, <1>6 DEF StorageInv, ClientInv
<1> QED
  BY <1>3, <1>7 DEF c

\* A complete set of parts is the snapshot they were cut from.
LEMMA CompleteIsRight ==
    ASSUME NEW c \in Client, ClientInv(c), NEW m \in Message, c.recvTick = m.tick, Complete(c, m)
    PROVE  Right(c, m)
<1>1. CASE m.num = 0
  BY <1>1 DEF Right
<1>2. CASE m.num # 0
  <2>1. {p \in 0 .. MaxParts - 1 : c.data[p] # 0} = 0 .. m.num - 1
    BY <1>2 DEF Complete, Client
  <2>2. ASSUME NEW p \in 0 .. m.num - 1
        PROVE  c.data[p] = m.tick
    <3>1. p \in 0 .. MaxParts - 1 /\ c.data[p] # 0
      BY <2>1
    <3> QED
      BY <3>1 DEF ClientInv
  <2> QED
    BY <2>2 DEF Right
<1> QED
  BY <1>1, <1>2

\* What is purged is neither on the screen nor the base.
LEMMA VerifiedInv ==
    ASSUME StorageInv, NEW m \in Message, Acceptable(client, m),
           m.base >= 0 => Holds(client.store, m.base)
    PROVE  LET v == Verified(Received(m), m)
           IN  /\ ClientInv(v)
               /\ \A i \in 1 .. Len(v.store) : v.store[i] < m.tick
<1> DEFINE v == Verified(Received(m), m)
           t == PurgeTick(m.base)
           r == PurgeUntil(client.store, t)
<1>1. /\ v.data = NoParts
      /\ v.store = r
      /\ v.crcErrors = IF client.crcErrors > 0 THEN client.crcErrors - 1 ELSE 0
      /\ v.recvTick = m.tick
      /\ v.ackTick = client.ackTick
      /\ v.prev = client.prev
      /\ v.current = client.current
      /\ v.received = client.received
  BY VerifiedType DEF StorageInv
<1> HIDE DEF v
<1>2. \A i \in 1 .. Len(client.store) : client.store[i] < m.tick
  BY ReceivedInv
<1>3. client \in Client
  BY TypeParts DEF StorageInv
<1>4. /\ client.store \in Seq(Tick) /\ Len(client.store) \in Nat
      /\ \A i \in 1 .. Len(client.store) : client.store[i] \in Tick
  BY <1>3, LenProperties, ElementOfSeq DEF Client
<1>5. /\ m.base \in Ack
      /\ t \in Int
      /\ t <= m.base
      /\ client.prev # 0 => t <= client.prev
      /\ client.prev = 0 /\ client.current = 0 => t = m.base
  <2>1. m.base \in Ack
    BY DEF Message
  <2> QED
    BY <2>1, PurgeTickLeast DEF StorageInv
<1> HIDE DEF t
<1>6. PICK n \in 0 .. Len(client.store) :
         /\ \A i \in 1 .. n : client.store[i] < t
         /\ Len(r) = Len(client.store) - n
         /\ \A i \in 1 .. Len(client.store) - n : r[i] = client.store[i + n]
  BY <1>4, <1>5, PurgeUntilShifts
<1>7. Increasing(r)
  BY <1>4, <1>5, PurgeUntilKeeps DEF StorageInv, ClientInv
<1> HIDE DEF r
<1>8. \A i \in 1 .. Len(r) : r[i] < m.tick
  BY <1>2, <1>4, <1>6
<1>9. Shown(v)
  <2>1. CASE client.received < 2
    <3>1. /\ Len(client.store) = client.received /\ client.prev = 0 /\ client.current = 0
          /\ client.received \in {0, 1}
      BY <1>3, <2>1 DEF StorageInv, ClientInv, Shown, Client
    <3>2. ASSUME n = 1
          PROVE  FALSE
      <4>1. Len(client.store) = 1 /\ client.store[1] < m.base
        BY <1>5, <1>6, <3>1, <3>2
      <4>2. m.base >= 0
        BY <1>4, <1>5, <4>1, SnapshotsAssumption DEF Tick, Ack
      <4>3. client.store[1] = m.base
        BY <4>1, <4>2 DEF Holds
      <4> QED
        BY <1>5, <4>1, <4>3, SnapshotsAssumption DEF Ack, Tick
    <3>3. n = 0
      BY <1>6, <3>1, <3>2
    <3> QED
      BY <1>1, <1>6, <2>1, <3>1, <3>3 DEF Shown
  <2>2. CASE ~(client.received < 2)
    <3>1. PICK i \in 1 .. Len(client.store) - 1 :
             client.prev = client.store[i] /\ client.current = client.store[i + 1]
      BY <2>2 DEF StorageInv, ClientInv, Shown
    <3>2. i \in 1 .. Len(client.store) /\ client.prev \in Tick
      BY <1>4, <3>1
    <3>3. t <= client.store[i]
      BY <1>5, <3>1, <3>2 DEF Tick
    <3>4. client.store[i] \in Int
      BY <1>4, <3>2 DEF Tick
    <3>5. i \notin 1 .. n
      BY <1>5, <1>6, <3>3, <3>4
    <3>6. /\ i - n \in 1 .. Len(r) - 1
          /\ r[i - n] = client.store[i]
          /\ r[i - n + 1] = client.store[i + 1]
      BY <1>4, <1>6, <3>1, <3>5
    <3> QED
      BY <1>1, <2>2, <3>1, <3>6 DEF Shown
  <2> QED
    BY <2>1, <2>2
<1>10. \A p \in 0 .. MaxParts - 1 : NoParts[p] = 0
  BY DEF NoParts
<1>11. client.crcErrors = 0
  BY DEF StorageInv, ClientInv
<1>12. \A i \in 1 .. Len(r) : r[i] \in Int /\ m.tick \in Int
  BY <1>4, <1>6, TickNumbers, SMTT(20) DEF Message
<1>13. ClientInv(v)
  BY <1>1, <1>7, <1>8, <1>9, <1>10, <1>11, <1>12 DEF ClientInv
<1> QED
  BY <1>1, <1>8, <1>13 DEF v, r

\* The new snapshot goes to the end of the storage.
LEMMA StoredInv ==
    ASSUME NEW v \in Client, ClientInv(v), NEW m \in Message, v.recvTick = m.tick,
           v.data = NoParts, \A i \in 1 .. Len(v.store) : v.store[i] < m.tick
    PROVE  ClientInv(Stored(v, m))
<1> DEFINE d == Stored(v, m)
<1>1. /\ d.store = Add(v.store, m.tick)
      /\ d.ackTick = m.tick
      /\ d.received = IF v.received < 2 THEN v.received + 1 ELSE 2
      /\ v.received = 1 => /\ d.prev = d.store[1]
                           /\ d.current = d.store[Len(d.store)]
      /\ v.received # 1 => /\ d.prev = v.prev
                           /\ d.current = v.current
      /\ d.recvTick = v.recvTick
      /\ d.data = v.data
      /\ d.crcErrors = v.crcErrors
  BY StoredType
<1> HIDE DEF d
<1>2. v.store \in Seq(Tick) /\ Len(v.store) \in Nat /\ m.tick \in Tick /\ m.tick \in Int
  BY StoreElements, TickNumbers DEF Client, Message
<1>3. /\ Len(d.store) = Len(v.store) + 1
      /\ \A i \in 1 .. Len(v.store) : d.store[i] = v.store[i]
      /\ d.store[Len(v.store) + 1] = m.tick
      /\ Increasing(d.store)
  <2>1. Increasing(v.store)
    BY DEF ClientInv
  <2> DEFINE a == Add(v.store, m.tick)
  <2>2. /\ Len(a) = Len(v.store) + 1
        /\ \A i \in 1 .. Len(v.store) : a[i] = v.store[i]
        /\ a[Len(v.store) + 1] = m.tick
    BY <1>2, AddKeeps
  <2>3. Increasing(a)
    BY <1>2, <2>1, AddKeeps
  <2>4. d.store = a
    BY <1>1
  <2> HIDE DEF a
  <2> QED
    BY <2>2, <2>3, <2>4
<1>4. \A i \in 1 .. Len(d.store) : d.store[i] <= d.recvTick /\ d.ackTick = d.recvTick
  <2>1. \A i \in 1 .. Len(v.store) : v.store[i] \in Int
    BY <1>2, StoreElements
  <2> QED
    BY <1>1, <1>2, <1>3, <2>1
<1>5. \A p \in 0 .. MaxParts - 1 : d.data[p] = 0
  BY <1>1 DEF NoParts
<1>6. Shown(d)
  <2>1. v.received \in 0 .. 2
    BY DEF Client
  <2>2. CASE v.received = 0
    BY <1>1, <1>2, <1>3, <2>2 DEF ClientInv, Shown
  <2>3. CASE v.received = 1
    <3>1. Len(v.store) = 1
      BY <2>3 DEF ClientInv, Shown
    <3>2. Len(d.store) = 2
      BY <1>3, <3>1
    <3> QED
      BY <1>1, <2>3, <3>2 DEF Shown
  <2>4. CASE v.received = 2
    <3>1. PICK i \in 1 .. Len(v.store) - 1 :
             v.prev = v.store[i] /\ v.current = v.store[i + 1]
      BY <2>4 DEF ClientInv, Shown
    <3>2. i \in 1 .. Len(d.store) - 1 /\ i \in 1 .. Len(v.store) /\ i + 1 \in 1 .. Len(v.store)
      BY <1>2, <1>3, <3>1
    <3>3. d.prev = d.store[i] /\ d.current = d.store[i + 1]
      BY <1>1, <1>3, <2>4, <3>1, <3>2
    <3> QED
      BY <1>1, <2>4, <3>2, <3>3 DEF Shown
  <2> QED
    BY <2>1, <2>2, <2>3, <2>4
<1>7. ClientInv(d)
  BY <1>1, <1>3, <1>4, <1>5, <1>6 DEF ClientInv
<1> QED
  BY <1>7 DEF d

\* What a part does to a client whose storage is in order: the crc is never wrong.
LEMMA ReceivePartInv ==
    ASSUME StorageInv, NEW m \in parts, ReceivePart(m)
    PROVE  /\ ClientInv(client')
           /\ Kept(m) \/ NoBase(m) \/ Taken(m)
<1>1. /\ m \in Message
      /\ Acceptable(client, m)
      /\ Kept(m) \/ NoBase(m) \/ Wrong(m) \/ Taken(m)
  BY ReceivePartCases DEF StorageInv
<1>2. /\ Received(m) \in Client
      /\ Received(m).recvTick = m.tick
      /\ Received(m).store = client.store
  BY <1>1, ReceivedType DEF StorageInv
<1>3. ClientInv(Received(m)) /\ \A i \in 1 .. Len(client.store) : client.store[i] < m.tick
  BY <1>1, ReceivedInv
<1>4. ~Wrong(m)
  BY <1>1, <1>2, <1>3, CompleteIsRight DEF Wrong
<1>5. ASSUME Kept(m) PROVE ClientInv(client')
  BY <1>3, <1>5 DEF Kept
<1>6. ASSUME NoBase(m) PROVE ClientInv(client')
  <2>1. /\ client'.data = NoParts
        /\ client'.store = client.store
        /\ client'.recvTick = m.tick
        /\ client'.crcErrors = Received(m).crcErrors
        /\ client'.prev = Received(m).prev
        /\ client'.current = Received(m).current
        /\ client'.received = Received(m).received
    BY <1>2, <1>6, DiscardedType DEF NoBase, StorageInv
  <2>2. \A p \in 0 .. MaxParts - 1 : client'.data[p] = 0
    BY <2>1 DEF NoParts
  <2>3. Shown(client')
    BY <1>2, <1>3, <2>1 DEF ClientInv, Shown
  <2>4. \A i \in 1 .. Len(client.store) : client.store[i] \in Int /\ m.tick \in Int
    <3>1. client.store \in Seq(Tick)
      BY DEF StorageInv, TypeOK
    <3> QED
      BY <1>1, <3>1, StoreElements, TickNumbers DEF Message
  <2> QED
    BY <1>2, <1>3, <2>1, <2>2, <2>3, <2>4 DEF ClientInv
<1>7. ASSUME Taken(m) PROVE ClientInv(client')
  <2> DEFINE v == Verified(Received(m), m)
  <2>1. m.base >= 0 => Holds(client.store, m.base)
    BY <1>7 DEF Taken
  <2>2. /\ ClientInv(v)
        /\ \A i \in 1 .. Len(v.store) : v.store[i] < m.tick
    BY <1>1, <2>1, VerifiedInv
  <2>3. v \in Client /\ v.data = NoParts /\ v.recvTick = m.tick
    BY <1>1, VerifiedType DEF StorageInv
  <2>4. client' \in {v, Stored(v, m)}
    BY <1>7 DEF Taken
  <2> HIDE DEF v
  <2>5. ClientInv(Stored(v, m))
    BY <1>1, <2>2, <2>3, StoredInv
  <2> QED
    BY <2>2, <2>4, <2>5
<1> QED
  BY <1>1, <1>4, <1>5, <1>6, <1>7

LEMMA StorageInit == Init => StorageInv
<1> SUFFICES ASSUME Init PROVE StorageInv
  OBVIOUS
<1>1. ServerInv(server)
  BY DEF Init, ServerInv, Increasing
<1>2. \A p \in 0 .. MaxParts - 1 : client.data[p] = 0
  BY DEF Init, NoParts
<1>3. Shown(client)
  BY DEF Init, Shown
<1>4. ClientInv(client)
  BY <1>2, <1>3 DEF Init, ClientInv, Increasing
<1> QED
  BY <1>1, <1>4, TypeInit DEF StorageInv

\* A new tick is newer than all in the server's storage.
LEMMA DoSnapshotInv ==
    ASSUME StorageInv, NEW num \in 0 .. MaxParts, DoSnapshot(num)
    PROVE  ServerInv(server')
<1> DEFINE tick == server.tick + 1
           r == PurgeUntil(server.store, tick - Keep)
<1>1. /\ tick \in Tick /\ server'.tick = tick /\ server'.store = Add(r, tick)
      /\ server' \in Server
  BY DoSnapshotType DEF StorageInv
<1>2. /\ server.store \in Seq(Tick) /\ server.tick \in Int /\ tick \in Int /\ tick - Keep \in Int
      /\ Increasing(server.store)
  BY SnapshotsAssumption, SMTT(20) DEF StorageInv, TypeOK, ServerInv
<1>3. /\ r \in Seq(Tick)
      /\ Increasing(r)
      /\ \A t : Holds(r, t) => Holds(server.store, t)
  BY <1>2, PurgeUntilKeeps
<1> HIDE DEF r
<1>4. Len(r) \in Nat /\ \A i \in 1 .. Len(r) : r[i] \in Int
  BY <1>3, StoreElements
<1>5. ASSUME NEW i \in 1 .. Len(r)
      PROVE  r[i] < tick
  <2>1. Holds(server.store, r[i])
    BY <1>3 DEF Holds
  <2>2. r[i] <= server.tick
    BY <2>1 DEF Holds, StorageInv, ServerInv
  <2> QED
    BY <1>2, <1>4, <2>2
<1> HIDE DEF tick
<1> DEFINE a == Add(r, tick)
<1>6. /\ Len(a) = Len(r) + 1
      /\ \A i \in 1 .. Len(r) : a[i] = r[i]
      /\ a[Len(r) + 1] = tick
      /\ Increasing(a)
  BY <1>1, <1>3, <1>5, AddKeeps, ZenonT(30)
<1> HIDE DEF a
<1>7. \A i \in 1 .. Len(a) : a[i] <= tick
  BY <1>2, <1>4, <1>5, <1>6
<1>8. server'.store = a
  BY <1>1 DEF a
<1> QED
  BY <1>1, <1>6, <1>7, <1>8 DEF ServerInv

\* Update takes the next snapshot of the storage, and it is a later one.
LEMMA NextSnapshotInv ==
    ASSUME StorageInv, NextSnapshot
    PROVE  /\ ClientInv(client')
           /\ client'.store = client.store
           /\ client'.ackTick = client.ackTick
           /\ client'.recvTick = client.recvTick
           /\ client'.received = client.received
           /\ client'.current >= client.current
           /\ client'.prev >= client.prev
<1>1. client.received = 2 /\ client \in Client
  BY NextSnapshotType, TypeParts DEF StorageInv
<1>2. PICK i \in 1 .. Len(client.store) - 1 :
         /\ client.store[i] = client.current
         /\ client' = [client EXCEPT !.prev = client.current, !.current = client.store[i + 1]]
  BY NextSnapshotType DEF StorageInv
<1>3. PICK j \in 1 .. Len(client.store) - 1 :
         client.prev = client.store[j] /\ client.current = client.store[j + 1]
  BY <1>1 DEF StorageInv, ClientInv, Shown
<1>4. client.store \in Seq(Tick)
  BY <1>1 DEF Client
<1>5. /\ Len(client.store) \in Nat
      /\ \A k \in 1 .. Len(client.store) : client.store[k] \in Int
  BY <1>4, StoreElements
<1>6. /\ i \in 1 .. Len(client.store) /\ i + 1 \in 1 .. Len(client.store)
      /\ j \in 1 .. Len(client.store) /\ j + 1 \in 1 .. Len(client.store)
  BY <1>2, <1>3, <1>5
<1>7. client.store[i] < client.store[i + 1] /\ client.store[j] < client.store[j + 1]
  BY <1>6 DEF StorageInv, ClientInv, Increasing
<1>8. /\ client'.store = client.store
      /\ client'.ackTick = client.ackTick
      /\ client'.recvTick = client.recvTick
      /\ client'.data = client.data
      /\ client'.crcErrors = client.crcErrors
      /\ client'.received = client.received
      /\ client'.prev = client.current
      /\ client'.current = client.store[i + 1]
  BY <1>1, <1>2 DEF Client
<1>9. Shown(client')
  BY <1>1, <1>2, <1>8 DEF Shown
<1>10. ClientInv(client')
  BY <1>8, <1>9 DEF StorageInv, ClientInv
<1> QED
  BY <1>2, <1>3, <1>5, <1>6, <1>7, <1>8, <1>10, SMTT(20)

LEMMA StorageStep == StorageInv /\ [Next]_vars => StorageInv'
<1> SUFFICES ASSUME StorageInv, [Next]_vars PROVE StorageInv'
  OBVIOUS
<1>1. TypeOK'
  BY TypeStep DEF StorageInv
<1> DEFINE Goal == ServerInv(server') /\ ClientInv(client')
<1>2. ServerInv(server) /\ ClientInv(client) /\ TypeOK
  BY DEF StorageInv
<1>3. ASSUME NEW num \in 0 .. MaxParts, DoSnapshot(num)
      PROVE  Goal
  BY <1>2, <1>3, DoSnapshotInv, DoSnapshotType
<1>4. ASSUME SkipTick PROVE Goal
  <2>1. server'.store = server.store /\ server'.tick = server.tick + 1 /\ client' = client
    BY <1>2, <1>4 DEF SkipTick, TypeOK
  <2>2. \A i \in 1 .. Len(server.store) : server.store[i] \in Int /\ server.tick \in Int
    <3>1. server.store \in Seq(Tick) /\ server.tick \in Int
      BY <1>2, SnapshotsAssumption DEF TypeOK
    <3> QED
      BY <3>1, StoreElements
  <2> QED
    BY <1>2, <2>1, <2>2 DEF ServerInv
<1>5. ASSUME NEW i \in 1 .. Len(inputs), HandleInput(i)
      PROVE  Goal
  BY <1>2, <1>5, HandleInputType DEF ServerInv
<1>6. ASSUME NEW m \in parts, ReceivePart(m)
      PROVE  Goal
  BY <1>2, <1>6, ReceivePartInv, ReceivePartCases
<1>7. ASSUME NextSnapshot PROVE Goal
  BY <1>2, <1>7, NextSnapshotInv, NextSnapshotType
<1>8. ASSUME UNCHANGED <<server, client>> PROVE Goal
  BY <1>2, <1>8
<1>9. ASSUME NEW i \in 1 .. Len(inputs), LoseInput(i)
      PROVE  Goal
  BY <1>8, <1>9 DEF LoseInput
<1>10. ASSUME NEW m \in parts, LosePart(m)
       PROVE  Goal
  BY <1>8, <1>10 DEF LosePart
<1>11. ASSUME ClientInput PROVE Goal
  BY <1>8, <1>11 DEF ClientInput
<1>12. ASSUME UNCHANGED vars PROVE Goal
  BY <1>8, <1>12 DEF vars
<1>13. Goal
  <2> HIDE DEF Goal
  <2> QED
    BY <1>3, <1>4, <1>5, <1>6, <1>7, <1>9, <1>10, <1>11, <1>12 DEF Next
<1> QED
  BY <1>1, <1>13 DEF StorageInv

LEMMA StorageAlways == Spec => []StorageInv
BY StorageInit, StorageStep, PTL DEF Spec

\* Both lists are always in the order of the ticks.
THEOREM StoresSortedCorrect == Spec => []StoresSorted
<1>1. StorageInv => StoresSorted
  BY DEF StorageInv, ServerInv, ClientInv, StoresSorted
<1> QED
  BY <1>1, StorageAlways, PTL

\* The snapshots on the screen are never freed.
THEOREM PointersAliveCorrect == Spec => []PointersAlive
<1>1. StorageInv => PointersAlive
  BY DEF StorageInv, ClientInv, Shown, PointersAlive
<1> QED
  BY <1>1, StorageAlways, PTL

\* No snapshot is ever put together from parts of two.
THEOREM NeverMixedCorrect == Spec => []NeverMixed
<1>1. StorageInv => NeverMixed
  BY DEF StorageInv, ClientInv, NeverMixed
<1> QED
  BY <1>1, StorageAlways, PTL

\* What goes on the screen is never older than what is there.
LEMMA StoredAdvances ==
    ASSUME StorageInv, NEW m \in parts, ReceivePart(m)
    PROVE  client'.current >= client.current /\ client'.prev >= client.prev
<1>1. m \in Message /\ (Kept(m) \/ NoBase(m) \/ Taken(m))
  BY ReceivePartInv, ReceivePartCases DEF StorageInv
<1>2. client \in Client /\ client.current \in Int /\ client.prev \in Int
  BY SnapshotsAssumption, TypeParts DEF StorageInv, Client
<1>3. /\ Received(m) \in Client
      /\ Received(m).prev = client.prev /\ Received(m).current = client.current
  BY <1>1, ReceivedType DEF StorageInv
<1>4. CASE Kept(m)
  BY <1>2, <1>3, <1>4 DEF Kept
<1>5. CASE NoBase(m)
  <2>1. client'.prev = client.prev /\ client'.current = client.current
    BY <1>3, <1>5, DiscardedType DEF NoBase, StorageInv
  <2> QED
    BY <1>2, <2>1
<1>6. CASE Taken(m)
  <2> DEFINE v == Verified(Received(m), m)
  <2>1. /\ v \in Client /\ v.prev = client.prev /\ v.current = client.current
        /\ v.received = client.received
    BY <1>1, VerifiedType DEF StorageInv
  <2>2. client' \in {v, Stored(v, m)}
    BY <1>6 DEF Taken
  <2> HIDE DEF v
  <2>3. Stored(v, m) \in Client
    BY <1>1, <2>1, StoredType
  <2>4. v.received # 1 => Stored(v, m).prev = v.prev /\ Stored(v, m).current = v.current
    BY <1>1, <2>1, StoredType
  <2>5. CASE client.received = 1
    <3>1. client.prev = 0 /\ client.current = 0
      BY <2>5 DEF StorageInv, ClientInv, Shown
    <3>2. client'.prev \in 0 .. MaxTick /\ client'.current \in 0 .. MaxTick
      BY <2>1, <2>2, <2>3 DEF Client
    <3> QED
      BY <3>1, <3>2
  <2>6. CASE client.received # 1
    BY <1>2, <2>1, <2>2, <2>4, <2>6
  <2> QED
    BY <2>5, <2>6
<1> QED
  BY <1>1, <1>4, <1>5, <1>6

\* The screen never goes back to an older tick.
THEOREM ScreenAdvancesCorrect == Spec => ScreenAdvances
<1> DEFINE Forward == client'.current >= client.current /\ client'.prev >= client.prev
<1>1. ASSUME StorageInv, [Next]_vars
      PROVE  [Forward]_vars
  <2>1. client.current \in Int /\ client.prev \in Int
    BY <1>1, SnapshotsAssumption DEF StorageInv, TypeOK
  <2>2. ASSUME UNCHANGED client PROVE Forward
    BY <2>1, <2>2
  <2>3. ASSUME NEW m \in parts, ReceivePart(m) PROVE Forward
    BY <1>1, <2>3, StoredAdvances
  <2>4. ASSUME NextSnapshot PROVE Forward
    BY <1>1, <2>4, NextSnapshotInv
  <2>5. ASSUME NEW num \in 0 .. MaxParts, DoSnapshot(num) PROVE UNCHANGED client
    BY <2>5 DEF DoSnapshot
  <2>6. ASSUME SkipTick \/ ClientInput PROVE UNCHANGED client
    BY <2>6 DEF SkipTick, ClientInput
  <2>7. ASSUME NEW i \in 1 .. Len(inputs), HandleInput(i) \/ LoseInput(i) PROVE UNCHANGED client
    BY <2>7 DEF HandleInput, LoseInput
  <2>8. ASSUME NEW m \in parts, LosePart(m) PROVE UNCHANGED client
    BY <2>8 DEF LosePart
  <2>9. ASSUME UNCHANGED vars PROVE UNCHANGED client
    BY <2>9 DEF vars
  <2> HIDE DEF Forward
  <2> QED
    BY <1>1, <2>2, <2>3, <2>4, <2>5, <2>6, <2>7, <2>8, <2>9 DEF Next
<1>2. StorageInv /\ [Next]_vars => [Forward]_vars
  BY <1>1
<1>3. Spec => [][Forward]_vars
  BY <1>2, StorageAlways, PTL DEF Spec
<1> QED
  BY <1>3 DEF ScreenAdvances

-----------------------------------------------------------------------------
(* Both ends together *)

\* The server and the network know only acks that came in order, of snapshots the
\* client still holds.
AcksInOrder ==
    /\ server.lastAcked <= client.ackTick
    /\ server.lastAcked > 0 => Holds(client.store, server.lastAcked)
    /\ client.ackTick > 0 => Holds(client.store, client.ackTick)
    /\ client.received > 0 => client.ackTick > 0
    /\ \A i \in 1 .. Len(inputs) :
          /\ inputs[i] > 0
          /\ server.lastAcked <= inputs[i] /\ inputs[i] <= client.ackTick
          /\ Holds(client.store, inputs[i])
    /\ \A i, j \in 1 .. Len(inputs) : i < j => inputs[i] <= inputs[j]

\* A later difference has a later base, if it has one at all.
BasesInOrder ==
    /\ \A m \in parts : m.base <= server.lastAcked /\ m.tick <= server.tick
    /\ \A m, n \in parts : n.tick <= m.tick /\ m.base > 0 => n.base <= m.base

Order == AcksInOrder /\ BasesInOrder /\ BaseHeld

OrderInv == StorageInv /\ (~swapped => Order)

LEMMA OrderInit == Init => OrderInv
<1> SUFFICES ASSUME Init PROVE OrderInv
  OBVIOUS
<1>1. StorageInv
  BY StorageInit
<1>2. AcksInOrder
  BY DEF Init, AcksInOrder
<1>3. BasesInOrder /\ BaseHeld
  BY DEF Init, BasesInOrder, BaseHeld
<1> QED
  BY <1>1, <1>2, <1>3 DEF OrderInv, Order

\* The numbers in the state.
LEMMA Numbers ==
    ASSUME TypeOK
    PROVE  /\ server.lastAcked \in Ack /\ server.lastAcked \in Int /\ server.tick \in Int
           /\ client.ackTick \in Ack /\ client.ackTick \in Int /\ client.recvTick \in Int
           /\ Len(inputs) \in Nat
           /\ \A i \in 1 .. Len(inputs) : inputs[i] \in Ack /\ inputs[i] \in Int
           /\ \A m \in parts : /\ m \in Message
                               /\ m.tick \in Tick /\ m.tick \in Int /\ m.tick > 0
                               /\ m.base \in Ack /\ m.base \in Int
<1>1. /\ server.lastAcked \in Ack /\ server.tick \in Int
      /\ client.ackTick \in Ack /\ client.recvTick \in Int
      /\ inputs \in Seq(Ack)
      /\ parts \subseteq Message
  BY SnapshotsAssumption DEF TypeOK
<1>2. Len(inputs) \in Nat /\ \A i \in 1 .. Len(inputs) : inputs[i] \in Ack
  BY <1>1, LenProperties, ElementOfSeq
<1>3. \A m \in parts : m \in Message /\ m.tick \in Tick /\ m.base \in Ack
  BY <1>1 DEF Message
<1> QED
  BY <1>1, <1>2, <1>3, TickNumbers

\* An input is handled, or lost: the order of the rest stays.
LEMMA InputGone ==
    ASSUME OrderInv, ~swapped, NEW i \in 1 .. Len(inputs),
           inputs' = Without(inputs, i), UNCHANGED <<client, parts>>,
           server'.tick = server.tick,
           server'.lastAcked = server.lastAcked \/ (server'.lastAcked = inputs[i] /\ i = 1)
    PROVE  AcksInOrder' /\ BasesInOrder' /\ BaseHeld'
<1>1. TypeOK /\ AcksInOrder /\ BasesInOrder /\ BaseHeld
  BY DEF OrderInv, StorageInv, Order
<1>2. /\ server.lastAcked \in Int /\ client.ackTick \in Int /\ Len(inputs) \in Nat
      /\ \A j \in 1 .. Len(inputs) : inputs[j] \in Int
      /\ \A m \in parts : m.base \in Int
  BY <1>1, Numbers
<1>3. inputs \in Seq(Ack)
  BY <1>1 DEF TypeOK
<1>4. /\ Len(inputs') = Len(inputs) - 1
      /\ \A j \in 1 .. Len(inputs) - 1 : inputs'[j] = IF j < i THEN inputs[j] ELSE inputs[j + 1]
  BY <1>3, WithoutType
<1> DEFINE At(j) == IF j < i THEN j ELSE j + 1
<1>5. ASSUME NEW j \in 1 .. Len(inputs')
       PROVE  At(j) \in 1 .. Len(inputs) /\ inputs'[j] = inputs[At(j)] /\ At(j) # i
  BY <1>2, <1>4
<1>6. \A j, k \in 1 .. Len(inputs') : j < k => At(j) < At(k)
  BY <1>2, <1>4
<1>7. i = 1 => \A j \in 1 .. Len(inputs') : i < At(j)
  BY <1>2, <1>4
<1> HIDE DEF At
<1>8. /\ server'.lastAcked \in Int
      /\ server.lastAcked <= server'.lastAcked
      /\ server'.lastAcked <= client.ackTick
      /\ server'.lastAcked > 0 => Holds(client.store, server'.lastAcked)
      /\ \A j \in 1 .. Len(inputs') : server'.lastAcked <= inputs'[j]
  <2>1. CASE server'.lastAcked = server.lastAcked
    <3>1. /\ server.lastAcked <= client.ackTick
          /\ server.lastAcked > 0 => Holds(client.store, server.lastAcked)
          /\ \A k \in 1 .. Len(inputs) : server.lastAcked <= inputs[k]
      BY <1>1 DEF AcksInOrder
    <3>2. \A j \in 1 .. Len(inputs') : server.lastAcked <= inputs'[j]
      BY <1>5, <3>1
    <3> QED
      BY <1>2, <2>1, <3>1, <3>2
  <2>2. CASE server'.lastAcked = inputs[i] /\ i = 1
    <3>1. /\ inputs[i] \in Int
          /\ server.lastAcked <= inputs[i]
          /\ inputs[i] <= client.ackTick
          /\ Holds(client.store, inputs[i])
      BY <1>1, <1>2 DEF AcksInOrder
    <3>2. ASSUME NEW j \in 1 .. Len(inputs')
          PROVE  inputs[i] <= inputs'[j]
      <4>1. At(j) \in 1 .. Len(inputs) /\ inputs'[j] = inputs[At(j)] /\ i < At(j)
        BY <1>5, <1>7, <2>2
      <4> QED
        BY <1>1, <4>1 DEF AcksInOrder
    <3> QED
      BY <2>2, <3>1, <3>2
  <2> QED
    BY <2>1, <2>2
<1>9. \A j \in 1 .. Len(inputs') :
         /\ inputs'[j] > 0
         /\ inputs'[j] <= client.ackTick
         /\ Holds(client.store, inputs'[j])
  BY <1>1, <1>5 DEF AcksInOrder
<1>10. \A j, k \in 1 .. Len(inputs') : j < k => inputs'[j] <= inputs'[k]
  BY <1>1, <1>5, <1>6 DEF AcksInOrder
<1>11. AcksInOrder'
  BY <1>1, <1>4, <1>8, <1>9, <1>10 DEF AcksInOrder
<1>12. BasesInOrder'
  BY <1>1, <1>2, <1>8 DEF BasesInOrder
<1> QED
  BY <1>1, <1>11, <1>12 DEF BaseHeld

\* The client takes a part: it keeps what others may still be based on.
LEMMA ReceiveOrder ==
    ASSUME OrderInv, ~swapped, NEW m \in parts, ReceivePart(m)
    PROVE  AcksInOrder' /\ BasesInOrder' /\ BaseHeld'
<1>1. /\ StorageInv /\ TypeOK
      /\ AcksInOrder /\ BasesInOrder /\ BaseHeld
  BY DEF OrderInv, StorageInv, Order
<1>2. /\ m \in Message
      /\ Acceptable(client, m)
      /\ parts' = {n \in parts : Acceptable(client', n)}
      /\ server' = server
      /\ ~swapped'
  BY <1>1, ReceivePartCases
<1>3. Kept(m) \/ NoBase(m) \/ Taken(m)
  BY <1>1, ReceivePartInv
<1>4. /\ server.lastAcked \in Ack /\ server.lastAcked \in Int
      /\ client.ackTick \in Ack /\ client.ackTick \in Int /\ client.recvTick \in Int
      /\ Len(inputs) \in Nat
      /\ \A i \in 1 .. Len(inputs) : inputs[i] \in Int
      /\ \A n \in parts : n.tick \in Int /\ n.tick > 0 /\ n.base \in Int
      /\ m.base \in Ack /\ m.tick \in Tick
  BY <1>1, Numbers
<1>5. m.tick >= client.recvTick /\ m.tick > client.ackTick
  BY <1>2 DEF Acceptable
<1>6. BasesInOrder'
  BY <1>1, <1>2 DEF BasesInOrder
<1>7. ~NoBase(m)
  <2>1. SUFFICES ASSUME NoBase(m) PROVE FALSE
    OBVIOUS
  <2>2. m.base > 0
    BY <1>4, <2>1, TickNumbers DEF NoBase
  <2> QED
    BY <1>1, <1>2, <2>1, <2>2 DEF BaseHeld, NoBase
<1>8. ASSUME Kept(m) PROVE AcksInOrder' /\ BaseHeld'
  <2>1. /\ client'.recvTick = m.tick
        /\ client'.store = client.store
        /\ client'.ackTick = client.ackTick
        /\ client'.received = client.received
        /\ inputs' = inputs
    BY <1>1, <1>2, <1>8, ReceivedType DEF Kept
  <2>2. AcksInOrder'
    BY <1>1, <1>2, <2>1 DEF AcksInOrder
  <2>3. ASSUME NEW n \in parts', n.base > 0
        PROVE  Holds(client'.store, n.base)
    <3>1. n \in parts /\ n.tick >= m.tick /\ n.tick > client.ackTick
      BY <1>2, <2>1 DEF Acceptable
    <3>2. Acceptable(client, n)
      BY <1>4, <1>5, <3>1 DEF Acceptable
    <3> QED
      BY <1>1, <2>1, <2>3, <3>1, <3>2 DEF BaseHeld
  <2> QED
    BY <2>2, <2>3 DEF BaseHeld
<1>9. ASSUME Taken(m) PROVE AcksInOrder' /\ BaseHeld'
  <2> DEFINE v == Verified(Received(m), m)
             t == PurgeTick(m.base)
  <2>1. /\ v \in Client
        /\ v.recvTick = m.tick
        /\ v.store = PurgeUntil(client.store, t)
        /\ v.ackTick = client.ackTick
        /\ v.received = client.received
    BY <1>1, <1>2, VerifiedType
  <2>2. client' \in {v, Stored(v, m)} /\ inputs' = inputs
    BY <1>9 DEF Taken
  <2> HIDE DEF v
  <2>3. /\ Stored(v, m).recvTick = m.tick
        /\ Stored(v, m).store = Add(v.store, m.tick)
        /\ Stored(v, m).ackTick = m.tick
    BY <1>2, <2>1, StoredType
  <2>4. t \in Int /\ t <= m.base
    BY <1>1, <1>4, PurgeTickLeast
  <2> HIDE DEF t
  <2>5. v.store \in Seq(Tick)
    BY <2>1 DEF Client
  <2>6. \A e \in Int : m.base <= e /\ Holds(client.store, e) => Holds(client'.store, e)
    <3>1. client.store \in Seq(Tick)
      BY <1>1 DEF TypeOK
    <3>2. ASSUME NEW e \in Int, m.base <= e, Holds(client.store, e)
          PROVE  Holds(v.store, e)
      <4>1. e >= t
        BY <1>4, <2>4, <3>2
      <4> QED
        BY <2>1, <2>4, <3>1, <3>2, <4>1, PurgeUntilKeeps
    <3>3. \A e : Holds(v.store, e) => Holds(Add(v.store, m.tick), e)
      BY <1>4, <2>5, AddKeeps
    <3> QED
      BY <2>2, <2>3, <3>2, <3>3
  <2>7. \/ client'.ackTick = client.ackTick /\ client'.received = client.received
        \/ client'.ackTick = m.tick /\ Holds(client'.store, m.tick)
    <3>1. Holds(Add(v.store, m.tick), m.tick)
      BY <1>4, <2>5, AddKeeps
    <3> QED
      BY <2>1, <2>2, <2>3, <3>1
  <2>8. client'.recvTick = m.tick /\ client'.ackTick >= client.ackTick /\ client'.ackTick \in Int
    BY <1>4, <1>5, <2>1, <2>2, <2>3
  <2>9. m.base <= server.lastAcked
    BY <1>1 DEF BasesInOrder
  <2>10. AcksInOrder'
    <3>1. server.lastAcked <= client'.ackTick
      BY <1>1, <1>4, <2>8 DEF AcksInOrder
    <3>2. server.lastAcked > 0 => Holds(client'.store, server.lastAcked)
      BY <1>1, <1>4, <2>6, <2>9 DEF AcksInOrder
    <3>3. client'.ackTick > 0 => Holds(client'.store, client'.ackTick)
      <4>1. CASE client'.ackTick = client.ackTick
        <5>1. m.base <= client.ackTick
          BY <1>1, <1>4, <2>9 DEF AcksInOrder
        <5> QED
          BY <1>1, <1>4, <2>6, <4>1, <5>1 DEF AcksInOrder
      <4> QED
        BY <2>7, <4>1
    <3>4. client'.received > 0 => client'.ackTick > 0
      BY <1>1, <1>4, <2>7 DEF AcksInOrder
    <3>5. ASSUME NEW i \in 1 .. Len(inputs)
          PROVE  /\ inputs[i] > 0 /\ server.lastAcked <= inputs[i]
                 /\ inputs[i] <= client'.ackTick
                 /\ Holds(client'.store, inputs[i])
      <4>1. /\ inputs[i] > 0 /\ server.lastAcked <= inputs[i]
            /\ inputs[i] <= client.ackTick
            /\ Holds(client.store, inputs[i])
        BY <1>1 DEF AcksInOrder
      <4>2. m.base <= inputs[i]
        BY <1>4, <2>9, <4>1
      <4>3. inputs[i] <= client'.ackTick
        BY <1>4, <2>8, <4>1
      <4> QED
        BY <1>4, <2>6, <4>1, <4>2, <4>3
    <3>6. \A i, j \in 1 .. Len(inputs) : i < j => inputs[i] <= inputs[j]
      BY <1>1 DEF AcksInOrder
    <3> QED
      BY <1>2, <2>2, <3>1, <3>2, <3>3, <3>4, <3>5, <3>6 DEF AcksInOrder
  <2>11. ASSUME NEW n \in parts', n.base > 0
         PROVE  Holds(client'.store, n.base)
    <3>1. n \in parts /\ n.tick >= m.tick /\ n.tick > client'.ackTick
      BY <1>2, <2>8 DEF Acceptable
    <3>2. Acceptable(client, n)
      BY <1>4, <1>5, <2>8, <3>1 DEF Acceptable
    <3>3. Holds(client.store, n.base)
      BY <1>1, <2>11, <3>1, <3>2 DEF BaseHeld
    <3>4. m.base <= n.base
      BY <1>1, <1>4, <2>11, <3>1 DEF BasesInOrder
    <3> QED
      BY <1>4, <2>6, <3>1, <3>3, <3>4
  <2> QED
    BY <2>10, <2>11 DEF BaseHeld
<1> QED
  BY <1>3, <1>6, <1>7, <1>8, <1>9

\* The new base is the latest that the server knows to be held.
LEMMA DoSnapshotOrder ==
    ASSUME OrderInv, ~swapped, NEW num \in 0 .. MaxParts, DoSnapshot(num)
    PROVE  AcksInOrder' /\ BasesInOrder' /\ BaseHeld'
<1> DEFINE tick == server.tick + 1
           base == IF Holds(server'.store, server.lastAcked) THEN server.lastAcked ELSE -1
           new == {[tick |-> tick, base |-> base, num |-> num, part |-> p] : p \in Packets(num)}
<1>1. /\ TypeOK
      /\ AcksInOrder /\ BasesInOrder /\ BaseHeld
  BY DEF OrderInv, StorageInv, Order
<1>2. /\ server'.tick = tick
      /\ server'.lastAcked = server.lastAcked
      /\ parts' \in {parts \cup new, parts}
      /\ UNCHANGED <<client, inputs, swapped>>
  BY <1>1, DoSnapshotType
<1>3. /\ server.lastAcked \in Ack /\ server.lastAcked \in Int /\ server.tick \in Int
      /\ \A n \in parts : n.tick \in Int /\ n.base \in Int
  BY <1>1, Numbers
<1>4. base \in Int /\ base <= server.lastAcked /\ (base > 0 => base = server.lastAcked)
  BY <1>3, TickNumbers
<1>5. \A n \in new : n.tick = tick /\ n.base = base
  OBVIOUS
<1> HIDE DEF base, new
<1>6. AcksInOrder'
  BY <1>1, <1>2 DEF AcksInOrder
<1>7. \A n \in parts' : n \in parts \/ n \in new
  BY <1>2
<1>8. \A n \in parts : n.base <= server.lastAcked /\ n.tick <= server.tick
  BY <1>1 DEF BasesInOrder
<1>9. \A n \in parts' : n.base <= server.lastAcked /\ n.tick <= tick
  BY <1>3, <1>4, <1>5, <1>7, <1>8
<1>10. ASSUME NEW n \in parts', NEW o \in parts', o.tick <= n.tick, n.base > 0
       PROVE  o.base <= n.base
  <2>1. CASE n \in new
    BY <1>4, <1>5, <1>9, <1>10, <2>1
  <2>2. CASE n \in parts
    <3>1. o \notin new
      BY <1>3, <1>5, <1>8, <1>10, <2>2
    <3> QED
      BY <1>1, <1>7, <1>10, <2>2, <3>1 DEF BasesInOrder
  <2> QED
    BY <1>7, <2>1, <2>2
<1>11. BasesInOrder'
  BY <1>2, <1>9, <1>10 DEF BasesInOrder
<1>12. ASSUME NEW n \in parts', Acceptable(client, n), n.base > 0
       PROVE  Holds(client.store, n.base)
  <2>1. CASE n \in parts
    BY <1>1, <1>12, <2>1 DEF BaseHeld, OrderInv
  <2>2. CASE n \in new
    <3>1. n.base = server.lastAcked
      BY <1>4, <1>5, <1>12, <2>2
    <3> QED
      BY <1>1, <1>12, <3>1 DEF AcksInOrder
  <2> QED
    BY <1>7, <2>1, <2>2
<1>13. BaseHeld'
  BY <1>2, <1>12 DEF BaseHeld
<1> QED
  BY <1>6, <1>11, <1>13

\* An input carries the latest ack.
LEMMA ClientInputOrder ==
    ASSUME OrderInv, ~swapped, ClientInput
    PROVE  AcksInOrder' /\ BasesInOrder' /\ BaseHeld'
<1>1. /\ TypeOK
      /\ AcksInOrder /\ BasesInOrder /\ BaseHeld
  BY DEF OrderInv, StorageInv, Order
<1>2. /\ client.received = 2
      /\ SendInput(client.ackTick)
      /\ UNCHANGED <<server, client, parts, swapped>>
  BY DEF ClientInput
<1>3. client.ackTick \in Ack /\ inputs \in Seq(Ack) /\ Len(inputs) \in Nat
  BY <1>1, Numbers DEF TypeOK
<1>4. CASE inputs' = inputs
  BY <1>1, <1>2, <1>4 DEF AcksInOrder, BasesInOrder, BaseHeld
<1>5. CASE inputs' = Append(inputs, client.ackTick)
  <2>1. /\ Len(inputs') = Len(inputs) + 1
        /\ \A i \in 1 .. Len(inputs) : inputs'[i] = inputs[i]
        /\ inputs'[Len(inputs) + 1] = client.ackTick
    BY <1>3, <1>5, AppendProperties
  <2>2. client.ackTick > 0 /\ client.ackTick \in Int
    BY <1>1, <1>2, <1>3, TickNumbers DEF AcksInOrder
  <2>3. \A i \in 1 .. Len(inputs') : i \in 1 .. Len(inputs) \/ i = Len(inputs) + 1
    BY <1>3, <2>1
  <2>4. \A i \in 1 .. Len(inputs') :
           /\ inputs'[i] > 0
           /\ server.lastAcked <= inputs'[i] /\ inputs'[i] <= client.ackTick
           /\ Holds(client.store, inputs'[i])
    BY <1>1, <2>1, <2>2, <2>3 DEF AcksInOrder
  <2>5. ASSUME NEW i \in 1 .. Len(inputs'), NEW j \in 1 .. Len(inputs'), i < j
        PROVE  inputs'[i] <= inputs'[j]
    <3>1. CASE j \in 1 .. Len(inputs)
      <4>1. i \in 1 .. Len(inputs)
        BY <1>3, <2>5, <3>1
      <4> QED
        BY <1>1, <2>1, <2>5, <3>1, <4>1 DEF AcksInOrder
    <3>2. CASE j = Len(inputs) + 1
      BY <2>1, <2>4, <3>2
    <3> QED
      BY <2>3, <3>1, <3>2
  <2>6. AcksInOrder'
    BY <1>1, <1>2, <2>4, <2>5 DEF AcksInOrder
  <2> QED
    BY <1>1, <1>2, <2>6 DEF BasesInOrder, BaseHeld
<1> QED
  BY <1>1, <1>2, <1>3, <1>4, <1>5, SendInputType

LEMMA OrderStep == OrderInv /\ [Next]_vars => OrderInv'
<1> SUFFICES ASSUME OrderInv, [Next]_vars PROVE OrderInv'
  OBVIOUS
<1>1. StorageInv'
  BY StorageStep DEF OrderInv
<1>2. /\ StorageInv /\ TypeOK /\ swapped \in BOOLEAN
      /\ ~swapped => AcksInOrder /\ BasesInOrder /\ BaseHeld
  BY DEF OrderInv, StorageInv, Order, TypeOK
<1> DEFINE Goal == ~swapped' => AcksInOrder' /\ BasesInOrder' /\ BaseHeld'
<1>3. ASSUME NEW num \in 0 .. MaxParts, DoSnapshot(num) PROVE Goal
  <2>1. swapped' = swapped
    BY <1>3 DEF DoSnapshot
  <2> QED
    BY <1>3, <2>1, DoSnapshotOrder
<1>4. ASSUME SkipTick PROVE Goal
  <2>1. /\ server'.tick = server.tick + 1 /\ server'.lastAcked = server.lastAcked
        /\ UNCHANGED <<client, parts, inputs, swapped>>
    BY <1>2, <1>4 DEF SkipTick, TypeOK
  <2>2. server.tick \in Int /\ \A m \in parts : m.tick \in Int
    BY <1>2, Numbers
  <2> QED
    BY <1>2, <2>1, <2>2 DEF AcksInOrder, BasesInOrder, BaseHeld
<1>5. ASSUME NEW i \in 1 .. Len(inputs), HandleInput(i) PROVE Goal
  <2>1. /\ server'.tick = server.tick /\ server'.lastAcked = inputs[i]
        /\ inputs' = Without(inputs, i)
        /\ swapped' = (swapped \/ i > 1)
        /\ UNCHANGED <<client, parts>>
    BY <1>2, <1>5, HandleInputType
  <2>2. ASSUME ~swapped' PROVE AcksInOrder' /\ BasesInOrder' /\ BaseHeld'
    <3>1. ~swapped /\ ~(i > 1)
      BY <2>1, <2>2, Zenon
    <3>2. i = 1
      BY <1>2, <3>1, Numbers
    <3> QED
      BY <2>1, <3>1, <3>2, InputGone
  <2> QED
    BY <2>2
<1>6. ASSUME NEW i \in 1 .. Len(inputs), LoseInput(i) PROVE Goal
  <2>1. inputs' = Without(inputs, i) /\ UNCHANGED <<server, client, parts, swapped>>
    BY <1>6 DEF LoseInput
  <2> QED
    BY <2>1, InputGone
<1>7. ASSUME NEW m \in parts, ReceivePart(m) PROVE Goal
  <2>1. swapped' = swapped
    BY <1>7 DEF ReceivePart
  <2> QED
    BY <1>7, <2>1, ReceiveOrder
<1>8. ASSUME NEW m \in parts, LosePart(m) PROVE Goal
  BY <1>2, <1>8 DEF LosePart, AcksInOrder, BasesInOrder, BaseHeld
<1>9. ASSUME ClientInput PROVE Goal
  <2>1. swapped' = swapped
    BY <1>9 DEF ClientInput
  <2> QED
    BY <1>9, <2>1, ClientInputOrder
<1>10. ASSUME NextSnapshot PROVE Goal
  <2>1. /\ client'.store = client.store
        /\ client'.ackTick = client.ackTick
        /\ client'.recvTick = client.recvTick
        /\ client'.received = client.received
        /\ UNCHANGED <<server, parts, inputs, swapped>>
    BY <1>2, <1>10, NextSnapshotInv, NextSnapshotType
  <2> QED
    BY <1>2, <2>1 DEF AcksInOrder, BasesInOrder, BaseHeld, Acceptable
<1>11. ASSUME UNCHANGED vars PROVE Goal
  BY <1>2, <1>11 DEF vars, AcksInOrder, BasesInOrder, BaseHeld
<1>12. Goal
  <2> HIDE DEF Goal
  <2> QED
    BY <1>3, <1>4, <1>5, <1>6, <1>7, <1>8, <1>9, <1>10, <1>11 DEF Next
<1> QED
  BY <1>1, <1>12 DEF OrderInv, Order

\* The client holds the base of every difference that it takes, as long as the
\* network has swapped no inputs.
THEOREM BaseHeldCorrect == Spec => []BaseHeld
<1>1. OrderInv => BaseHeld
  BY DEF OrderInv, Order, BaseHeld
<1> QED
  BY <1>1, OrderInit, OrderStep, PTL DEF Spec

=============================================================================
