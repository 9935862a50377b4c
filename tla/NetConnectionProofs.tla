------------------------- MODULE NetConnectionProofs -------------------------
(***************************************************************************)
(* Lemmas about the operators of NetConnection: the values they return and *)
(* what they do to the state of a connection.                              *)
(***************************************************************************)
EXTENDS NetConnection, TLAPS, SequenceTheorems, WellFoundedInduction

\* What a method of CNetConnection that sends returns.
Step == [conn : Connection, out : SUBSET Packet]

Construct == [chunks : Seq(Chunk), resend : BOOLEAN]

\* G is a set of chunks.  Packets that carry chunks of G and the ack a, and
\* connections that keep and have queued only chunks of G: the lemmas say what
\* the methods do to these, and with G == Chunk they are type lemmas.
PacketsOf(G, a) == {p \in Packet : p.ack = a /\ p.chunks \in Seq(G)}

ConnectionsOf(G) ==
    {c \in Connection : c.buffer \in Seq(G) /\ c.construct.chunks \in Seq(G)}

\* d is c but for m_Construct: what sending leaves alone.
SameButConstruct(d, c) ==
    /\ d.state = c.state
    /\ d.sequence = c.sequence
    /\ d.ack = c.ack
    /\ d.peerAck = c.peerAck
    /\ d.unknownSeq = c.unknownSeq
    /\ d.buffer = c.buffer

-----------------------------------------------------------------------------
(* The least-number principle, from the library's theorem that < is well-    *)
(* founded on the naturals, and what UnpackNextChunk and AckChunks use it for *)

Below == {p \in Nat \X Nat : p[1] < p[2]}

LEMMA BelowWellFounded == IsWellFoundedOn(Below, Nat)
BY NatLessThanWellFounded DEF OpToRel, Below

LEMMA LeastNumber ==
    ASSUME NEW T \in SUBSET Nat, T # {}
    PROVE  \E x \in T : \A y \in T : x <= y
<1>1. \E x \in T : \A y \in T : ~(<<y, x>> \in Below)
  BY BelowWellFounded, WFMin, Zenon
<1>2. ASSUME NEW x \in T, NEW y \in T, ~(<<y, x>> \in Below)
      PROVE  x <= y
  <2>1. <<y, x>> \in Nat \X Nat
    OBVIOUS
  <2>2. ~(y < x)
    BY <1>2, <2>1 DEF Below
  <2> QED
    BY <2>2
<1> QED
  BY <1>1, <1>2

\* The loops that stop at the first element of a sequence with some property
\* stop somewhere: T holds the places where they may.
LEMMA FirstStop ==
    ASSUME NEW n \in Nat, NEW T
    PROVE  \E m \in 0 .. n : /\ \A i \in 1 .. m : i \notin T
                             /\ m < n => m + 1 \in T
<1> DEFINE U == T \cap 1 .. n
<1>1. CASE U = {}
  BY <1>1
<1>2. CASE U # {}
  <2>1. U \in SUBSET Nat
    OBVIOUS
  <2> HIDE DEF U
  <2>2. PICK x \in U : \A y \in U : x <= y
    BY <1>2, <2>1, LeastNumber
  <2> USE DEF U
  <2>3. x - 1 \in 0 .. n
    OBVIOUS
  <2>4. \A i \in 1 .. x - 1 : i \notin T
    BY <2>2
  <2> QED
    BY <2>3, <2>4
<1> QED
  BY <1>1, <1>2

-----------------------------------------------------------------------------
(* Arithmetic of numbers that wrap *)

LEMMA ModRange ==
  ASSUME NEW m \in Nat \ {0}, NEW a \in Nat
  PROVE a % m \in 0 .. m-1 /\ a % m \in Nat
OBVIOUS

LEMMA DivMod ==
  ASSUME NEW m \in Nat \ {0}, NEW a \in Nat
  PROVE a \div m \in Nat /\ a = m * (a \div m) + (a % m)
OBVIOUS

LEMMA ModUnique ==
  ASSUME NEW m \in Nat \ {0}, NEW a \in Nat, NEW q \in Nat, NEW r \in Nat, r < m,
         a = m * q + r
  PROVE a % m = r
<1>1. a \div m \in Nat /\ a = m * (a \div m) + (a % m) /\ a % m \in 0 .. m - 1
  BY DivMod, ModRange
<1> DEFINE d == a \div m  s == a % m
<1>2. d \in Nat /\ s \in 0 .. m-1 /\ m * d + s = m * q + r
  BY <1>1
<1> HIDE DEF d, s
<1>3. CASE d = q
  BY <1>2, <1>3 DEF s
<1>4. CASE d > q
  <2>1. m * d >= m * (q + 1) /\ m * (q + 1) = m * q + m BY <1>2, <1>4
  <2> QED BY <1>2, <2>1
<1>5. CASE d < q
  <2>1. m * q >= m * (d + 1) /\ m * (d + 1) = m * d + m BY <1>2, <1>5
  <2> QED BY <1>2, <2>1
<1> QED BY <1>2, <1>3, <1>4, <1>5

LEMMA ModAdd ==
  ASSUME NEW m \in Nat \ {0}, NEW a \in Nat, NEW k \in Nat, k < m
  PROVE (a + k) % m = IF (a % m) + k < m THEN (a % m) + k ELSE (a % m) + k - m
<1> DEFINE d == a \div m  s == a % m
<1>1. d \in Nat /\ s \in 0 .. m-1 /\ a = m * d + s
  BY DivMod, ModRange
<1>2. a % m = s OBVIOUS
<1> HIDE DEF d, s
<1>3. CASE s + k < m
  <2>1. a + k = m * d + (s + k) BY <1>1
  <2> QED BY <1>1, <1>2, <1>3, <2>1, ModUnique
<1>4. CASE s + k >= m
  <2>1. a + k = m * (d + 1) + (s + k - m) BY <1>1
  <2>2. s + k - m \in Nat /\ s + k - m < m /\ d + 1 \in Nat /\ a + k \in Nat BY <1>1, <1>4
  <2>3. (a + k) % m = s + k - m BY <2>1, <2>2, ModUnique
  <2> QED BY <1>2, <1>4, <2>3, <1>1
<1> QED BY <1>1, <1>3, <1>4

\* Numbers less than m apart that agree modulo m are equal.
LEMMA ModEqual ==
  ASSUME NEW m \in Nat \ {0}, NEW a \in Nat, NEW b \in Nat,
         a - b < m, b - a < m, a % m = b % m
  PROVE  a = b
<1>1. ASSUME NEW x \in Nat, NEW y \in Nat, NEW k \in Nat, y = x + k, k < m, x % m = y % m
      PROVE  x = y
  <2>1. y % m = IF (x % m) + k < m THEN (x % m) + k ELSE (x % m) + k - m
    BY <1>1, ModAdd
  <2>2. x % m \in 0 .. m - 1
    BY ModRange
  <2> QED
    BY <1>1, <2>1, <2>2
<1>2. CASE a <= b
  <2> DEFINE k == b - a
  <2>1. k \in Nat /\ b = a + k /\ k < m
    BY <1>2
  <2> HIDE DEF k
  <2> QED
    BY <1>1, <2>1
<1>3. CASE b <= a
  <2> DEFINE k == a - b
  <2>1. k \in Nat /\ a = b + k /\ k < m
    BY <1>3
  <2> HIDE DEF k
  <2> QED
    BY <1>1, <2>1
<1> QED
  BY <1>2, <1>3

LEMMA ModSucc ==
  ASSUME NEW m \in Nat \ {0}, NEW a \in Nat
  PROVE  ((a % m) + 1) % m = (a + 1) % m
<1>1. CASE m = 1
  <2>1. ((a % m) + 1) \in Nat /\ a + 1 \in Nat BY ModRange
  <2> QED BY <1>1, <2>1, ModRange
<1>2. CASE m > 1
  <2> DEFINE s == a % m
  <2>1. s \in 0 .. m - 1
    BY ModRange
  <2>2. (a + 1) % m = IF s + 1 < m THEN s + 1 ELSE s + 1 - m
    BY <1>2, ModAdd
  <2> HIDE DEF s
  <2>3. CASE s + 1 < m
    <3>1. (s + 1) % m = s + 1
      BY <2>1, <2>3, ModUnique
    <3> QED
      BY <2>2, <2>3, <3>1 DEF s
  <2>4. CASE s + 1 = m
    <3>1. (s + 1) % m = 0
      BY <2>4, ModUnique
    <3> QED
      BY <2>2, <2>4, <3>1 DEF s
  <2> QED
    BY <2>1, <2>3, <2>4
<1> QED
  BY <1>1, <1>2
\* The window check of Feed, on the numbers behind the sequence numbers: n is
\* what has been sent, p the latest ack seen, r the ack of the packet.
LEMMA AckWindow ==
    ASSUME NEW c, NEW n \in Nat, NEW p \in Nat, NEW r \in Nat, p <= n, n - p < MaxSeq,
           c.sequence = n % MaxSeq, c.peerAck = p % MaxSeq
    PROVE  /\ AckValid(c, r % MaxSeq) => \E x \in p .. n : x % MaxSeq = r % MaxSeq
           /\ r \in p .. n => AckValid(c, r % MaxSeq)
<1> DEFINE M == MaxSeq
           a == r % M
           q == p % M
           k == n - p
<1>1. M \in Nat \ {0}
  BY NetConnectionAssumption
<1>2. a \in 0 .. M - 1 /\ q \in 0 .. M - 1
  BY <1>1, ModRange
<1>3. k \in Nat /\ k < M /\ n = p + k
  OBVIOUS
<1>4. n % M = IF q + k < M THEN q + k ELSE q + k - M
  <2> HIDE DEF k, M
  <2> QED
    BY <1>1, <1>3, ModAdd DEF q
<1>5. ASSUME NEW j \in 0 .. k
      PROVE  (p + j) % M = (IF q + j < M THEN q + j ELSE q + j - M) /\ p + j \in p .. n
  <2> HIDE DEF k, M
  <2>1. j \in Nat /\ j < M /\ p + j \in p .. n
    BY <1>1, <1>3
  <2>2. (p + j) % M = IF q + j < M THEN q + j ELSE q + j - M
    BY <1>1, <2>1, ModAdd DEF q
  <2> HIDE DEF q
  <2> QED
    BY <2>1, <2>2
<1>6. AckValid(c, a) <=> IF n % M >= q THEN q <= a /\ a <= n % M ELSE q <= a \/ a <= n % M
  BY DEF AckValid
<1>7. ASSUME AckValid(c, a)
      PROVE  \E x \in p .. n : x % M = a
  <2>1. CASE q <= a /\ a - q <= k
    <3> HIDE DEF a, q, k, M
    <3> DEFINE j == a - q
    <3>1. j \in 0 .. k /\ q + j = a /\ a < M
      BY <1>1, <1>2, <1>3, <2>1
    <3> HIDE DEF j
    <3> QED
      BY <1>5, <3>1
  <2>2. CASE a < q /\ a + M - q <= k
    <3> HIDE DEF a, q, k, M
    <3> DEFINE j == a + M - q
    <3>1. j \in 0 .. k /\ q + j - M = a /\ ~(q + j < M)
      BY <1>1, <1>2, <1>3, <2>2
    <3> HIDE DEF j
    <3> QED
      BY <1>5, <3>1
  <2>3. (q <= a /\ a - q <= k) \/ (a < q /\ a + M - q <= k)
    <3> DEFINE s == n % M
    <3>1. AckValid(c, a) <=> IF s >= q THEN q <= a /\ a <= s ELSE q <= a \/ a <= s
      BY <1>6
    <3>2. s = IF q + k < M THEN q + k ELSE q + k - M
      BY <1>4
    <3> HIDE DEF s, q, a, k, M
    <3> QED
      BY <1>1, <1>2, <1>3, <1>7, <3>1, <3>2
  <2> QED
    BY <2>1, <2>2, <2>3
<1>8. ASSUME r \in p .. n
      PROVE  AckValid(c, a)
  <2> DEFINE j == r - p
             s == n % M
  <2>1. j \in 0 .. k /\ p + j = r
    BY <1>8
  <2> HIDE DEF j
  <2>2. a = IF q + j < M THEN q + j ELSE q + j - M
    <3> HIDE DEF k, M, q
    <3> QED
      BY <1>5, <2>1
  <2>3. AckValid(c, a) <=> IF s >= q THEN q <= a /\ a <= s ELSE q <= a \/ a <= s
    BY <1>6
  <2>4. s = IF q + k < M THEN q + k ELSE q + k - M
    BY <1>4
  <2> HIDE DEF s, q, a, k, M
  <2> QED
    BY <1>1, <1>2, <1>3, <2>1, <2>2, <2>3, <2>4
<1> QED
  BY <1>7, <1>8

\* IsSeqInBackroom tells chunks up to r from later ones, as long as they are
\* less than half of the sequence space apart.
LEMMA Backroom ==
    ASSUME NEW n \in Nat, NEW r \in Nat, n - r < MaxSeq \div 2, r - n < MaxSeq \div 2
    PROVE  IsSeqInBackroom(n % MaxSeq, r % MaxSeq) <=> n <= r
<1> DEFINE M == MaxSeq
           h == M \div 2
           a == r % M
           s == n % M
<1>1. M \in Nat \ {0} /\ h \in Nat /\ M = 2 * h
  <2>1. M \in Nat \ {0} /\ M % 2 = 0
    BY NetConnectionAssumption
  <2> QED
    BY <2>1, DivMod
<1>2. a \in 0 .. M - 1 /\ s \in 0 .. M - 1
  BY <1>1, ModRange
<1>3. IsSeqInBackroom(s, a) <=>
          IF a < h THEN s <= a \/ s >= a + M - h ELSE s <= a /\ s >= a - h
  BY DEF IsSeqInBackroom
<1>4. CASE n <= r
  <2> DEFINE k == r - n
  <2>1. k \in Nat /\ k < h /\ r = n + k
    BY <1>4
  <2>2. k < M
    BY <1>1, <2>1
  <2> HIDE DEF k, h, M
  <2>3. a = IF s + k < M THEN s + k ELSE s + k - M
    BY <1>1, <2>1, <2>2, ModAdd DEF s, a
  <2> HIDE DEF s, a
  <2> QED
    BY <1>1, <1>2, <1>3, <1>4, <2>1, <2>3 DEF s, a, M
<1>5. CASE r < n
  <2> DEFINE k == n - r
  <2>1. k \in Nat \ {0} /\ k < h /\ n = r + k
    BY <1>5
  <2>2. k < M
    BY <1>1, <2>1
  <2> HIDE DEF k, h, M
  <2>3. s = IF a + k < M THEN a + k ELSE a + k - M
    BY <1>1, <2>1, <2>2, ModAdd DEF s, a
  <2>4. ~IsSeqInBackroom(s, a)
    <3> HIDE DEF s, a
    <3> QED
      BY <1>1, <1>2, <1>3, <2>1, <2>3
  <2> QED
    BY <1>5, <2>4 DEF s, a, M
<1> QED
  BY <1>4, <1>5

-----------------------------------------------------------------------------
(* Sequence numbers and packets *)

LEMMA NextSeqType ==
    ASSUME NEW s \in Sequence
    PROVE  NextSeq(s) \in Sequence
BY NetConnectionAssumption DEF Sequence, NextSeq

LEMMA ControlPacketContents ==
    ASSUME NEW G \in SUBSET Chunk, NEW c \in Connection, NEW ctrl \in Control
    PROVE  ControlPacket(c, ctrl) \in PacketsOf(G, c.ack)
<1>1. <<>> \in Seq(G) /\ <<>> \in Seq(Chunk)
  BY EmptySeq
<1> QED
  BY <1>1 DEF ControlPacket, Packet, Connection, PacketsOf

LEMMA ControlPacketType ==
    ASSUME NEW c \in Connection, NEW ctrl \in Control
    PROVE  ControlPacket(c, ctrl) \in Packet
BY ControlPacketContents DEF PacketsOf

LEMMA ResetType == ResetConnection \in Connection
<1>1. <<>> \in Seq(Chunk)
  BY EmptySeq
<1>2. 0 \in Sequence
  BY NetConnectionAssumption DEF Sequence
<1> QED
  BY <1>1, <1>2 DEF ResetConnection, Connection, EmptyConstruct, State

\* The fields of a connection, for steps that need no more of its type.
LEMMA Fields ==
    ASSUME NEW c \in Connection
    PROVE  /\ c.state \in State
           /\ c.sequence \in Sequence
           /\ c.ack \in Sequence
           /\ c.peerAck \in Sequence
           /\ c.buffer \in Seq(Chunk)
           /\ c.construct \in Construct
           /\ c.construct.chunks \in Seq(Chunk)
           /\ c.construct.resend \in BOOLEAN
BY DEF Connection, Construct

LEMMA FlushContents ==
    ASSUME NEW G \in SUBSET Chunk, NEW c \in ConnectionsOf(G)
    PROVE  /\ Flush(c).conn \in ConnectionsOf(G)
           /\ Flush(c).out \subseteq PacketsOf(G, c.ack)
           /\ SameButConstruct(Flush(c).conn, c)
<1> DEFINE flushed == [c EXCEPT !.construct = EmptyConstruct]
<1>1. <<>> \in Seq(Chunk) /\ <<>> \in Seq(G)
  BY EmptySeq
<1>2. c \in Connection /\ c.buffer \in Seq(G)
  BY DEF ConnectionsOf
<1>3. /\ flushed \in Connection
      /\ SameButConstruct(flushed, c)
      /\ flushed.construct.chunks = <<>>
  BY <1>1, <1>2 DEF Connection, EmptyConstruct, SameButConstruct
<1>4. [ctrl |-> "NONE", ack |-> c.ack, resend |-> c.construct.resend,
       chunks |-> c.construct.chunks] \in PacketsOf(G, c.ack)
  BY <1>2, Fields DEF Packet, Control, PacketsOf, ConnectionsOf
<1> HIDE DEF flushed
<1>5. flushed \in ConnectionsOf(G)
  BY <1>1, <1>2, <1>3 DEF ConnectionsOf, SameButConstruct
<1>6. SameButConstruct(c, c)
  BY DEF SameButConstruct
<1> QED
  BY <1>3, <1>4, <1>5, <1>6 DEF Flush, flushed

-----------------------------------------------------------------------------
(* Sending *)

LEMMA DivBound ==
    ASSUME NEW a \in Nat, NEW b \in Nat \ {0}
    PROVE  a \div b \in Nat /\ (a \div b) * b <= a
OBVIOUS

LEMMA TimesMonotone ==
    ASSUME NEW a \in Nat, NEW b \in Nat, NEW n \in Nat, a <= b
    PROVE  a * n \in Nat /\ a * n <= b * n
OBVIOUS

LEMMA SubSeqType ==
    ASSUME NEW S, NEW s \in Seq(S), NEW m \in Nat \ {0}, NEW n \in Int, n <= Len(s)
    PROVE  SubSeq(s, m, n) \in Seq(S)
<1>1. \A i \in m .. n : s[i] \in S
  BY ElementOfSeq, LenProperties
<1> QED
  BY <1>1, SubSeqProperties

LEMMA SeqMonotone ==
    ASSUME NEW S, NEW R, S \subseteq R, NEW q \in Seq(S)
    PROVE  q \in Seq(R)
<1>1. Len(q) \in Nat /\ q \in [1 .. Len(q) -> R]
  BY LenProperties
<1> QED
  BY <1>1

LEMMA QueueContents ==
    ASSUME NEW G \in SUBSET Chunk, NEW c \in ConnectionsOf(G), NEW q \in Seq(G)
    PROVE  /\ Queue(c, q).conn \in ConnectionsOf(G)
           /\ Queue(c, q).out \subseteq PacketsOf(G, c.ack)
           /\ SameButConstruct(Queue(c, q).conn, c)
<1> DEFINE all == c.construct.chunks \o q
           full == IF q = <<>> THEN 0 ELSE (Len(all) - 1) \div MaxChunks
           Part(i) == SubSeq(all, (i - 1) * MaxChunks + 1, i * MaxChunks)
           rest == SubSeq(all, full * MaxChunks + 1, Len(all))
           built == [c EXCEPT !.construct =
                        [chunks |-> rest, resend |-> c.construct.resend /\ full = 0]]
           Full(i) == [ctrl |-> "NONE", ack |-> c.ack,
                       resend |-> c.construct.resend /\ i = 1, chunks |-> Part(i)]
<1>1. Queue(c, q) = IF ~Alive(c) THEN [conn |-> c, out |-> {}]
                    ELSE [conn |-> built, out |-> {Full(i) : i \in 1 .. full}]
  BY DEF Queue
<1>2. c \in Connection /\ c.construct.chunks \in Seq(G) /\ c.buffer \in Seq(G)
  BY DEF ConnectionsOf
<1>3. all \in Seq(G) /\ Len(all) \in Nat /\ (q # <<>> => Len(all) > 0)
  BY <1>2, ConcatProperties, EmptySeq, LenProperties
<1>4. MaxChunks \in Nat \ {0}
  BY NetConnectionAssumption
<1> HIDE DEF all, Part, rest, built, Full
<1>5. full \in Nat /\ full * MaxChunks <= Len(all)
  <2>1. CASE q = <<>>
    BY <1>3, <1>4, <2>1
  <2>2. CASE q # <<>>
    <3>1. Len(all) - 1 \in Nat
      BY <1>3, <2>2
    <3>2. full \in Nat /\ full * MaxChunks <= Len(all) - 1
      BY <1>4, <2>2, <3>1, DivBound
    <3> HIDE DEF full
    <3>3. full * MaxChunks \in Nat
      BY <1>4, <3>2, TimesMonotone
    <3> QED
      BY <1>3, <3>2, <3>3
  <2> QED
    BY <2>1, <2>2
<1> HIDE DEF full
<1>6. full * MaxChunks \in Nat
  BY <1>4, <1>5, TimesMonotone
<1>7. rest \in Seq(G) /\ rest \in Seq(Chunk)
  <2>1. rest \in Seq(G)
    BY <1>3, <1>6, SubSeqType DEF rest
  <2> QED
    BY <2>1, SeqMonotone
<1>8. ASSUME NEW i \in 1 .. full
      PROVE  Part(i) \in Seq(G) /\ Part(i) \in Seq(Chunk)
  <2>1. i * MaxChunks \in Nat /\ i * MaxChunks <= full * MaxChunks
    BY <1>4, <1>5, TimesMonotone
  <2>2. (i - 1) * MaxChunks \in Nat
    BY <1>4, <1>5, TimesMonotone
  <2>3. Part(i) \in Seq(G)
    BY <1>3, <1>5, <1>6, <2>1, <2>2, SubSeqType DEF Part
  <2> QED
    BY <2>3, SeqMonotone
<1>9. built \in Connection /\ SameButConstruct(built, c) /\ built.construct.chunks = rest
  BY <1>2, <1>7 DEF Connection, SameButConstruct, built
<1>10. built \in ConnectionsOf(G)
  BY <1>2, <1>7, <1>9 DEF ConnectionsOf, SameButConstruct
<1>11. ASSUME NEW i \in 1 .. full
       PROVE  Full(i) \in PacketsOf(G, c.ack)
  BY <1>2, <1>8, Fields DEF Packet, Control, PacketsOf, Full
<1>12. SameButConstruct(c, c)
  BY DEF SameButConstruct
<1> QED
  BY <1>1, <1>9, <1>10, <1>11, <1>12

\* The chunk QueueChunk builds.
NewChunk(c, vital, data) ==
    [vital |-> vital, seq |-> IF vital THEN NextSeq(c.sequence) ELSE c.sequence,
     data |-> data]

\* QueueChunk takes a sequence number, keeps the chunk if it can, and leaves
\* the rest of the session alone.
LEMMA QueueChunkContents ==
    ASSUME NEW G \in SUBSET Chunk, NEW c \in ConnectionsOf(G), NEW vital \in BOOLEAN,
           NEW data \in Nat, NewChunk(c, vital, data) \in G
    PROVE  /\ QueueChunk(c, vital, data).conn \in ConnectionsOf(G)
           /\ QueueChunk(c, vital, data).out \subseteq PacketsOf(G, c.ack)
           /\ QueueChunk(c, vital, data).saved \in BOOLEAN
           /\ QueueChunk(c, vital, data).saved <=>
                  Alive(c) /\ (vital => Len(c.buffer) < BufCap)
           /\ QueueChunk(c, vital, data).conn.state = c.state
           /\ QueueChunk(c, vital, data).conn.sequence = NewChunk(c, vital, data).seq
           /\ QueueChunk(c, vital, data).conn.ack = c.ack
           /\ QueueChunk(c, vital, data).conn.peerAck = c.peerAck
           /\ QueueChunk(c, vital, data).conn.unknownSeq = c.unknownSeq
           /\ QueueChunk(c, vital, data).conn.buffer =
                  IF vital /\ Len(c.buffer) < BufCap /\ Alive(c)
                  THEN Append(c.buffer, NewChunk(c, vital, data))
                  ELSE c.buffer
<1> DEFINE s == IF vital THEN NextSeq(c.sequence) ELSE c.sequence
           k == [vital |-> vital, seq |-> s, data |-> data]
           c1 == [c EXCEPT !.sequence = s]
           r == Queue(c1, <<k>>)
           kept == [r.conn EXCEPT !.buffer = Append(@, k)]
           saved == Alive(c) /\ (vital => Len(c.buffer) < BufCap)
           room == vital /\ Len(c.buffer) < BufCap /\ Alive(c)
<1>1. /\ QueueChunk(c, vital, data).conn = IF room THEN kept ELSE r.conn
      /\ QueueChunk(c, vital, data).out = r.out
      /\ QueueChunk(c, vital, data).saved = saved
  BY DEF QueueChunk
<1>2. NewChunk(c, vital, data) = k /\ k.seq = s
  BY DEF NewChunk
<1>3. k \in G
  BY <1>2
<1>4. c \in Connection /\ c.buffer \in Seq(G) /\ c.construct.chunks \in Seq(G)
  BY DEF ConnectionsOf
<1>5. s \in Sequence
  BY <1>4, Fields, NextSeqType
<1> HIDE DEF s, k
<1>6. /\ c1 \in Connection
      /\ c1.state = c.state /\ c1.sequence = s /\ c1.ack = c.ack
      /\ c1.peerAck = c.peerAck /\ c1.unknownSeq = c.unknownSeq
      /\ c1.buffer = c.buffer /\ c1.construct = c.construct
  BY <1>4, <1>5 DEF Connection
<1> HIDE DEF c1
<1>7. c1 \in ConnectionsOf(G)
  BY <1>4, <1>6 DEF ConnectionsOf
<1>8. <<k>> \in Seq(G)
  BY <1>3
<1>9. /\ r.conn \in ConnectionsOf(G)
      /\ r.out \subseteq PacketsOf(G, c.ack)
      /\ SameButConstruct(r.conn, c1)
  BY <1>6, <1>7, <1>8, QueueContents
<1> HIDE DEF r
<1>10. /\ r.conn \in Connection
      /\ r.conn.buffer = c.buffer
      /\ r.conn.construct.chunks \in Seq(G)
  BY <1>6, <1>9 DEF SameButConstruct, ConnectionsOf
<1>11. Append(r.conn.buffer, k) \in Seq(G) /\ Append(r.conn.buffer, k) \in Seq(Chunk)
  BY <1>3, <1>4, <1>10, AppendProperties, SeqMonotone
<1>12. /\ kept \in Connection
       /\ kept.state = r.conn.state /\ kept.sequence = r.conn.sequence
       /\ kept.ack = r.conn.ack /\ kept.peerAck = r.conn.peerAck
       /\ kept.unknownSeq = r.conn.unknownSeq
       /\ kept.buffer = Append(c.buffer, k)
       /\ kept.construct = r.conn.construct
  BY <1>10, <1>11 DEF Connection
<1> HIDE DEF kept
<1>13. kept \in ConnectionsOf(G)
  BY <1>10, <1>11, <1>12 DEF ConnectionsOf
<1>14. saved \in BOOLEAN /\ (saved <=> Alive(c) /\ (vital => Len(c.buffer) < BufCap))
  OBVIOUS
<1> HIDE DEF saved
<1>15. CASE room
  BY <1>1, <1>2, <1>6, <1>9, <1>12, <1>13, <1>14, <1>15 DEF SameButConstruct
<1>16. CASE ~room
  BY <1>1, <1>2, <1>6, <1>9, <1>10, <1>14, <1>16 DEF SameButConstruct
<1> QED
  BY <1>15, <1>16

LEMMA ResendContents ==
    ASSUME NEW G \in SUBSET Chunk, NEW c \in ConnectionsOf(G)
    PROVE  /\ Resend(c).conn \in ConnectionsOf(G)
           /\ Resend(c).out \subseteq PacketsOf(G, c.ack)
           /\ SameButConstruct(Resend(c).conn, c)
BY QueueContents DEF Resend, ConnectionsOf

LEMMA DisconnectContents ==
    ASSUME NEW G \in SUBSET Chunk, NEW c \in Connection
    PROVE  /\ Disconnect(c).conn = ResetConnection
           /\ Disconnect(c).out \subseteq PacketsOf(G, c.ack)
BY ControlPacketContents DEF Disconnect, Control

\* The type lemmas are the case G == Chunk.
LEMMA AllChunks ==
    ASSUME NEW c \in Connection
    PROVE  c \in ConnectionsOf(Chunk)
BY Fields DEF ConnectionsOf

LEMMA FlushType ==
    ASSUME NEW c \in Connection
    PROVE  Flush(c).conn \in Connection /\ Flush(c).out \subseteq Packet
<1>1. /\ Flush(c).conn \in ConnectionsOf(Chunk)
      /\ Flush(c).out \subseteq PacketsOf(Chunk, c.ack)
  BY AllChunks, FlushContents
<1> QED
  BY <1>1 DEF ConnectionsOf, PacketsOf

LEMMA FlushState ==
    ASSUME NEW c \in Connection
    PROVE  Flush(c).conn.state = c.state
BY AllChunks, FlushContents DEF SameButConstruct

LEMMA QueueType ==
    ASSUME NEW c \in Connection, NEW q \in Seq(Chunk)
    PROVE  /\ Queue(c, q).conn \in Connection
           /\ Queue(c, q).out \subseteq Packet
           /\ Queue(c, q).conn.state = c.state
<1>1. /\ Queue(c, q).conn \in ConnectionsOf(Chunk)
      /\ Queue(c, q).out \subseteq PacketsOf(Chunk, c.ack)
      /\ SameButConstruct(Queue(c, q).conn, c)
  BY AllChunks, QueueContents
<1> QED
  BY <1>1 DEF ConnectionsOf, PacketsOf, SameButConstruct

LEMMA QueueChunkType ==
    ASSUME NEW c \in Connection, NEW vital \in BOOLEAN, NEW data \in Nat
    PROVE  /\ QueueChunk(c, vital, data).conn \in Connection
           /\ QueueChunk(c, vital, data).out \subseteq Packet
           /\ QueueChunk(c, vital, data).saved \in BOOLEAN
           /\ QueueChunk(c, vital, data).conn.state = c.state
<1>1. NextSeq(c.sequence) \in Sequence /\ c.sequence \in Sequence
  BY Fields, NextSeqType
<1>2. NewChunk(c, vital, data) \in Chunk
  BY <1>1 DEF Chunk, NewChunk
<1>3. c \in ConnectionsOf(Chunk)
  BY AllChunks
<1>4. /\ QueueChunk(c, vital, data).conn \in ConnectionsOf(Chunk)
      /\ QueueChunk(c, vital, data).out \subseteq PacketsOf(Chunk, c.ack)
      /\ QueueChunk(c, vital, data).saved \in BOOLEAN
      /\ QueueChunk(c, vital, data).conn.state = c.state
  BY <1>2, <1>3, QueueChunkContents
<1> QED
  BY <1>4 DEF ConnectionsOf, PacketsOf

LEMMA ResendType ==
    ASSUME NEW c \in Connection
    PROVE  /\ Resend(c).conn \in Connection
           /\ Resend(c).out \subseteq Packet
           /\ Resend(c).conn.state = c.state
BY Fields, QueueType DEF Resend

LEMMA DisconnectType ==
    ASSUME NEW c \in Connection
    PROVE  Disconnect(c) \in Step /\ Disconnect(c).conn.state = "OFFLINE"
<1>1. ControlPacket(c, "CLOSE") \in Packet
  BY ControlPacketType DEF Control
<1> QED
  BY <1>1, ResetType DEF Disconnect, Step, ResetConnection

-----------------------------------------------------------------------------
(* Receiving *)

\* AckChunks pops chunks up to the first that a does not acknowledge.
LEMMA AckChunksContents ==
    ASSUME NEW G \in SUBSET Chunk, NEW c \in ConnectionsOf(G), NEW a \in Sequence
    PROVE  /\ AckChunks(c, a) \in ConnectionsOf(G)
           /\ AckChunks(c, a).state = c.state
           /\ AckChunks(c, a).sequence = c.sequence
           /\ AckChunks(c, a).ack = c.ack
           /\ AckChunks(c, a).peerAck = c.peerAck
           /\ AckChunks(c, a).unknownSeq = c.unknownSeq
           /\ \E n \in 0 .. Len(c.buffer) :
                  /\ \A i \in 1 .. n : IsSeqInBackroom(c.buffer[i].seq, a)
                  /\ n < Len(c.buffer) => ~IsSeqInBackroom(c.buffer[n + 1].seq, a)
                  /\ AckChunks(c, a).buffer = SubSeq(c.buffer, n + 1, Len(c.buffer))
<1> DEFINE Acked(i) == IsSeqInBackroom(c.buffer[i].seq, a)
           N == Len(c.buffer)
           Stop(m) == /\ \A i \in 1 .. m : Acked(i)
                      /\ m < N => ~Acked(m + 1)
           n == CHOOSE m \in 0 .. N : Stop(m)
           T == {i \in Nat : ~Acked(i)}
<1>1. /\ c \in Connection
      /\ c.buffer \in Seq(G)
      /\ c.construct.chunks \in Seq(G)
      /\ N \in Nat
  BY LenProperties DEF ConnectionsOf
<1>2. AckChunks(c, a) = [c EXCEPT !.buffer = SubSeq(@, n + 1, N)]
  BY DEF AckChunks
<1> HIDE DEF Acked, N
<1>3. \E m \in 0 .. N : Stop(m)
  <2> HIDE DEF T
  <2>1. PICK m \in 0 .. N : (\A i \in 1 .. m : i \notin T) /\ (m < N => m + 1 \in T)
    BY <1>1, FirstStop
  <2> USE DEF T
  <2>2. \A i \in 1 .. m : Acked(i)
    BY <2>1
  <2>3. m < N => ~Acked(m + 1)
    BY <2>1
  <2> QED
    BY <2>2, <2>3
<1>4. n \in 0 .. N /\ Stop(n)
  <2> HIDE DEF Stop
  <2> QED
    BY <1>3
<1> HIDE DEF n
<1> DEFINE rest == SubSeq(c.buffer, n + 1, N)
<1>5. rest \in Seq(G) /\ rest \in Seq(Chunk)
  <2>1. rest \in Seq(G)
    BY <1>1, <1>4, SubSeqType DEF N
  <2> QED
    BY <2>1, SeqMonotone
<1>6. AckChunks(c, a) = [c EXCEPT !.buffer = rest]
  BY <1>2
<1> HIDE DEF rest
<1>7. /\ AckChunks(c, a) \in ConnectionsOf(G)
      /\ AckChunks(c, a).state = c.state
      /\ AckChunks(c, a).sequence = c.sequence
      /\ AckChunks(c, a).ack = c.ack
      /\ AckChunks(c, a).peerAck = c.peerAck
      /\ AckChunks(c, a).unknownSeq = c.unknownSeq
      /\ AckChunks(c, a).buffer = rest
  BY <1>1, <1>5, <1>6 DEF Connection, ConnectionsOf
<1> QED
  BY <1>4, <1>7 DEF Acked, N, rest

LEMMA AckChunksType ==
    ASSUME NEW c \in Connection, NEW a \in Sequence
    PROVE  AckChunks(c, a) \in Connection /\ AckChunks(c, a).state = c.state
<1>1. c \in ConnectionsOf(Chunk)
  BY AllChunks
<1>2. AckChunks(c, a) \in ConnectionsOf(Chunk) /\ AckChunks(c, a).state = c.state
  BY <1>1, AckChunksContents
<1> QED
  BY <1>2 DEF ConnectionsOf

LEMMA FeedControlType ==
    ASSUME NEW c \in Connection, NEW ctrl \in Control
    PROVE  /\ FeedControl(c, ctrl) \in Step
           /\ c.state # "OFFLINE" => FeedControl(c, ctrl).conn.state # "OFFLINE"
           /\ Alive(FeedControl(c, ctrl).conn) => Alive(c)
<1>1. /\ [c EXCEPT !.state = "CONNECT"] \in Connection
      /\ [c EXCEPT !.state = "CONNECT"].state = "CONNECT"
      /\ [c EXCEPT !.state = "ONLINE"] \in Connection
      /\ [c EXCEPT !.state = "ONLINE"].state = "ONLINE"
  BY DEF Connection, State
<1>2. ControlPacket(c, "CONNECT") \in Packet /\ ControlPacket(c, "ACCEPT") \in Packet
  BY ControlPacketType DEF Control
<1>3. CASE ctrl = "TOKEN" /\ c.sixup /\ c.state = "WANT_TOKEN"
  BY <1>1, <1>2, <1>3 DEF FeedControl, Step, Alive
<1>4. CASE ctrl = "CONNECTACCEPT" /\ c.state = "CONNECT"
  <2> DEFINE on == [c EXCEPT !.state = "ONLINE"]
             answer == IF c.sixup THEN {} ELSE {ControlPacket(c, "ACCEPT")}
  <2>1. FeedControl(c, ctrl) = [conn |-> on, out |-> answer]
    BY <1>4 DEF FeedControl
  <2>2. answer \subseteq Packet
    BY <1>2
  <2>3. on \in Connection /\ on.state = "ONLINE"
    BY <1>1
  <2> HIDE DEF on, answer
  <2> QED
    BY <1>4, <2>1, <2>2, <2>3 DEF Step, Alive
<1>5. CASE /\ ~(ctrl = "TOKEN" /\ c.sixup /\ c.state = "WANT_TOKEN")
           /\ ~(ctrl = "CONNECTACCEPT" /\ c.state = "CONNECT")
  BY <1>5 DEF FeedControl, Step
<1> QED
  BY <1>3, <1>4, <1>5

\* Feed never makes a slot empty and never brings a dead connection back.
LEMMA FeedType ==
    ASSUME NEW c \in Connection, NEW p \in Packet
    PROVE  /\ Feed(c, p).ok \in BOOLEAN
           /\ Feed(c, p).conn \in Connection
           /\ Feed(c, p).out \subseteq Packet
           /\ c.state # "OFFLINE" => Feed(c, p).conn.state # "OFFLINE"
           /\ Alive(Feed(c, p).conn) => Alive(c)
<1> DEFINE heard == Heard(c, p.ack)
           resent == IF p.resend THEN Resend(heard) ELSE [conn |-> heard, out |-> {}]
           ctl == FeedControl(resent.conn, p.ctrl)
           closed == [resent.conn EXCEPT !.state = "ERROR", !.remoteClosed = TRUE]
<1>1. p.ack \in Sequence /\ p.ctrl \in Control /\ p.chunks \in Seq(Chunk)
  BY DEF Packet
<1>2. Feed(c, p) =
        IF ~AckValid(c, p.ack) THEN [ok |-> FALSE, conn |-> c, out |-> {}]
        ELSE IF p.ctrl = "CLOSE"
        THEN [ok |-> FALSE, out |-> resent.out, conn |-> closed]
        ELSE [ok |-> TRUE, out |-> resent.out \cup ctl.out,
              conn |-> IF ctl.conn.state = "ONLINE" THEN AckChunks(ctl.conn, p.ack) ELSE ctl.conn]
  BY DEF Feed
<1>3. heard \in Connection /\ heard.state = c.state
  BY <1>1 DEF Heard, Connection
<1> HIDE DEF heard
<1>4. resent.conn \in Connection /\ resent.out \subseteq Packet /\ resent.conn.state = c.state
  BY <1>3, ResendType
<1> HIDE DEF resent
<1>5. closed \in Connection /\ closed.state = "ERROR"
  BY <1>4 DEF Connection, State
<1> HIDE DEF closed
<1>6. /\ ctl.conn \in Connection
      /\ ctl.out \subseteq Packet
      /\ c.state # "OFFLINE" => ctl.conn.state # "OFFLINE"
      /\ Alive(ctl.conn) => Alive(c)
  BY <1>1, <1>4, FeedControlType DEF Step, Alive
<1> HIDE DEF ctl
<1>7. AckChunks(ctl.conn, p.ack) \in Connection /\ AckChunks(ctl.conn, p.ack).state = ctl.conn.state
  BY <1>1, <1>6, AckChunksType
<1> QED
  BY <1>2, <1>4, <1>5, <1>6, <1>7 DEF Alive

\* f is what Feed makes of the packet p: an ack that is accepted is noted and
\* releases the leading chunks it acknowledges.
Fed(c, p, f) ==
    IF AckValid(c, p.ack)
    THEN /\ f.conn.peerAck = p.ack
         /\ \/ f.conn.buffer = c.buffer
            \/ \E n \in 0 .. Len(c.buffer) :
                   /\ \A i \in 1 .. n : IsSeqInBackroom(c.buffer[i].seq, p.ack)
                   /\ f.conn.buffer = SubSeq(c.buffer, n + 1, Len(c.buffer))
    ELSE ~f.ok /\ f.conn = c

\* Feed on an established connection: only the ack of the packet and the
\* chunks it acknowledges change the session.
LEMMA FeedContents ==
    ASSUME NEW G \in SUBSET Chunk, NEW c \in ConnectionsOf(G), NEW p \in Packet,
           c.state = "ONLINE"
    PROVE  /\ Feed(c, p).ok \in BOOLEAN
           /\ Feed(c, p).out \subseteq PacketsOf(G, c.ack)
           /\ Feed(c, p).conn \in ConnectionsOf(G)
           /\ Feed(c, p).conn.state \in {"ONLINE", "ERROR"}
           /\ Feed(c, p).conn.sequence = c.sequence
           /\ Feed(c, p).conn.ack = c.ack
           /\ Feed(c, p).conn.unknownSeq = c.unknownSeq
           /\ Fed(c, p, Feed(c, p))
<1> DEFINE heard == Heard(c, p.ack)
           resent == IF p.resend THEN Resend(heard) ELSE [conn |-> heard, out |-> {}]
           ctl == FeedControl(resent.conn, p.ctrl)
           closed == [resent.conn EXCEPT !.state = "ERROR", !.remoteClosed = TRUE]
           valid == AckValid(c, p.ack)
<1>1. p.ack \in Sequence /\ p.ctrl \in Control /\ p.chunks \in Seq(Chunk)
  BY DEF Packet
<1>2. /\ c \in Connection
      /\ c.buffer \in Seq(G)
      /\ c.construct.chunks \in Seq(G)
  BY DEF ConnectionsOf
<1>3. Feed(c, p) =
        IF ~valid THEN [ok |-> FALSE, conn |-> c, out |-> {}]
        ELSE IF p.ctrl = "CLOSE"
        THEN [ok |-> FALSE, out |-> resent.out, conn |-> closed]
        ELSE [ok |-> TRUE, out |-> resent.out \cup ctl.out,
              conn |-> IF ctl.conn.state = "ONLINE" THEN AckChunks(ctl.conn, p.ack) ELSE ctl.conn]
  BY DEF Feed
<1>4. /\ heard \in Connection
      /\ heard.state = "ONLINE" /\ heard.sequence = c.sequence /\ heard.ack = c.ack
      /\ heard.peerAck = p.ack /\ heard.unknownSeq = c.unknownSeq
      /\ heard.buffer = c.buffer /\ heard.construct = c.construct
  BY <1>1, <1>2 DEF Heard, Connection
<1> HIDE DEF heard
<1>5. heard \in ConnectionsOf(G)
  BY <1>2, <1>4 DEF ConnectionsOf
<1>6. /\ resent.conn \in ConnectionsOf(G)
      /\ resent.out \subseteq PacketsOf(G, c.ack)
      /\ SameButConstruct(resent.conn, heard)
  <2>1. CASE p.resend
    BY <1>4, <1>5, <2>1, ResendContents
  <2>2. CASE ~p.resend
    BY <1>5, <2>2 DEF SameButConstruct
  <2> QED
    BY <2>1, <2>2
<1> HIDE DEF resent
<1>7. /\ resent.conn \in Connection
      /\ resent.conn.buffer = c.buffer
      /\ resent.conn.construct.chunks \in Seq(G)
      /\ resent.conn.state = "ONLINE"
  BY <1>4, <1>6 DEF ConnectionsOf, SameButConstruct
<1>8. /\ closed \in Connection
      /\ closed.state = "ERROR" /\ closed.sequence = resent.conn.sequence
      /\ closed.ack = resent.conn.ack /\ closed.peerAck = resent.conn.peerAck
      /\ closed.unknownSeq = resent.conn.unknownSeq
      /\ closed.buffer = resent.conn.buffer /\ closed.construct = resent.conn.construct
  BY <1>7 DEF Connection, State
<1>9. ctl.conn = resent.conn /\ ctl.out = {}
  BY <1>7 DEF FeedControl
<1> HIDE DEF closed, ctl
<1>10. closed \in ConnectionsOf(G)
  BY <1>2, <1>7, <1>8 DEF ConnectionsOf
<1> HIDE DEF valid
<1>11. CASE ~valid
  BY <1>3, <1>11 DEF Fed, valid
<1>12. CASE valid /\ p.ctrl = "CLOSE"
  <2>1. Feed(c, p) = [ok |-> FALSE, out |-> resent.out, conn |-> closed]
    BY <1>3, <1>12
  <2> QED
    BY <1>4, <1>6, <1>7, <1>8, <1>10, <1>12, <2>1 DEF SameButConstruct, Fed, valid
<1>13. CASE valid /\ p.ctrl # "CLOSE"
  <2> DEFINE acked == AckChunks(resent.conn, p.ack)
  <2>1. Feed(c, p) = [ok |-> TRUE, out |-> resent.out, conn |-> acked]
    BY <1>3, <1>7, <1>9, <1>13
  <2>2. /\ acked \in ConnectionsOf(G)
        /\ acked.state = resent.conn.state
        /\ acked.sequence = resent.conn.sequence
        /\ acked.ack = resent.conn.ack
        /\ acked.peerAck = resent.conn.peerAck
        /\ acked.unknownSeq = resent.conn.unknownSeq
        /\ \E n \in 0 .. Len(resent.conn.buffer) :
               /\ \A i \in 1 .. n : IsSeqInBackroom(resent.conn.buffer[i].seq, p.ack)
               /\ n < Len(resent.conn.buffer) =>
                      ~IsSeqInBackroom(resent.conn.buffer[n + 1].seq, p.ack)
               /\ acked.buffer = SubSeq(resent.conn.buffer, n + 1, Len(resent.conn.buffer))
    BY <1>1, <1>6, AckChunksContents
  <2> HIDE DEF acked
  <2> QED
    BY <1>4, <1>6, <1>7, <1>13, <2>1, <2>2 DEF SameButConstruct, Fed, valid
<1> QED
  BY <1>11, <1>12, <1>13

\* u is what UnpackNextChunk makes of the chunks q: it skips n chunks and
\* delivers the next one, if there is one, which then moves the ack.
Unpacked(c, q, u) ==
    /\ IF u.got /\ u.chunk.vital
       THEN u.conn.ack = u.chunk.seq /\ u.conn.unknownSeq = FALSE
       ELSE u.conn.ack = c.ack /\ u.conn.unknownSeq = c.unknownSeq
    /\ \E n \in 0 .. Len(q) :
           /\ u.got <=> n < Len(q)
           /\ u.got => u.chunk = q[n + 1] /\ Deliverable(c, q[n + 1])
           /\ u.rest = SubSeq(q, n + 2, Len(q))

LEMMA UnpackNextChunkContents ==
    ASSUME NEW G \in SUBSET Chunk, NEW c \in ConnectionsOf(G), NEW q \in Seq(Chunk)
    PROVE  /\ UnpackNextChunk(c, q).rest \in Seq(Chunk)
           /\ UnpackNextChunk(c, q).chunk \in Chunk
           /\ UnpackNextChunk(c, q).conn \in ConnectionsOf(G)
           /\ UnpackNextChunk(c, q).conn.state = c.state
           /\ UnpackNextChunk(c, q).conn.sequence = c.sequence
           /\ UnpackNextChunk(c, q).conn.peerAck = c.peerAck
           /\ UnpackNextChunk(c, q).conn.buffer = c.buffer
           /\ Unpacked(c, q, UnpackNextChunk(c, q))
<1> DEFINE N == Len(q)
           Stop(m) == /\ \A i \in 1 .. m : ~Deliverable(c, q[i])
                      /\ m < N => Deliverable(c, q[m + 1])
           n == CHOOSE m \in 0 .. N : Stop(m)
           T == {i \in Nat : Deliverable(c, q[i])}
           gap == \E i \in 1 .. n : ~IsSeqInBackroom(q[i].seq, c.ack)
           c1 == IF gap THEN SignalResend(c) ELSE c
           c2 == [c1 EXCEPT !.ack = q[n + 1].seq, !.unknownSeq = FALSE]
           none == [vital |-> FALSE, seq |-> 0, data |-> 0]
           u == UnpackNextChunk(c, q)
<1>1. N \in Nat
  BY LenProperties
<1>2. /\ u.got = (n < N)
      /\ u.chunk = IF n < N THEN q[n + 1] ELSE none
      /\ u.rest = SubSeq(q, n + 2, N)
      /\ u.conn = IF n < N /\ q[n + 1].vital THEN c2 ELSE c1
  BY DEF UnpackNextChunk
<1> HIDE DEF N, u
<1>3. \E m \in 0 .. N : Stop(m)
  <2> HIDE DEF T
  <2>1. PICK m \in 0 .. N : (\A i \in 1 .. m : i \notin T) /\ (m < N => m + 1 \in T)
    BY <1>1, FirstStop
  <2> USE DEF T
  <2>2. \A i \in 1 .. m : ~Deliverable(c, q[i])
    BY <2>1
  <2>3. m < N => Deliverable(c, q[m + 1])
    BY <2>1
  <2> QED
    BY <2>2, <2>3
<1>4. n \in 0 .. N /\ Stop(n)
  <2> HIDE DEF Stop
  <2> QED
    BY <1>3
<1> HIDE DEF n, gap
<1>5. c \in Connection /\ c.buffer \in Seq(G) /\ c.construct.chunks \in Seq(G)
  BY DEF ConnectionsOf
<1>6. SignalResend(c) \in ConnectionsOf(G) /\ SameButConstruct(SignalResend(c), c)
  BY <1>5 DEF SignalResend, Connection, ConnectionsOf, SameButConstruct
<1>7. c1 \in ConnectionsOf(G) /\ SameButConstruct(c1, c)
  BY <1>6 DEF SameButConstruct
<1> HIDE DEF c1
<1>8. n < N => q[n + 1] \in Chunk
  BY <1>1, <1>4, ElementOfSeq DEF N
<1>9. none \in Chunk
  BY NetConnectionAssumption DEF Chunk, Sequence
<1>10. SubSeq(q, n + 2, N) \in Seq(Chunk)
  BY <1>1, <1>4, SubSeqType DEF N
<1>11. n < N => /\ c2 \in ConnectionsOf(G)
                /\ c2.state = c1.state
                /\ c2.sequence = c1.sequence
                /\ c2.peerAck = c1.peerAck
                /\ c2.buffer = c1.buffer
                /\ c2.ack = q[n + 1].seq
                /\ c2.unknownSeq = FALSE
  BY <1>7, <1>8 DEF Connection, Chunk, ConnectionsOf
<1> HIDE DEF c2, none
<1>12. CASE n < N
  <2>1. u.got = TRUE /\ u.chunk = q[n + 1]
    BY <1>2, <1>12
  <2>2. CASE q[n + 1].vital
    <3>1. u.conn = c2
      BY <1>2, <1>12, <2>2
    <3> QED
      BY <1>2, <1>4, <1>7, <1>8, <1>10, <1>11, <1>12, <2>1, <2>2, <3>1
         DEF SameButConstruct, Unpacked, N, u
  <2>3. CASE ~q[n + 1].vital
    <3>1. u.conn = c1
      BY <1>2, <1>12, <2>3
    <3> QED
      BY <1>2, <1>4, <1>7, <1>8, <1>10, <1>12, <2>1, <2>3, <3>1
         DEF SameButConstruct, Unpacked, N, u
  <2> QED
    BY <2>2, <2>3
<1>13. CASE ~(n < N)
  <2>1. ~u.got
    BY <1>2, <1>13
  <2>2. u.chunk = none
    BY <1>2, <1>13
  <2>3. u.conn = c1
    BY <1>2, <1>13
  <2> QED
    BY <1>2, <1>4, <1>7, <1>9, <1>10, <1>13, <2>1, <2>2, <2>3
     DEF SameButConstruct, Unpacked, N, u
<1> QED
  BY <1>12, <1>13

LEMMA UnpackNextChunkType ==
    ASSUME NEW c \in Connection, NEW q \in Seq(Chunk)
    PROVE  /\ UnpackNextChunk(c, q).chunk \in Chunk
           /\ UnpackNextChunk(c, q).rest \in Seq(Chunk)
           /\ UnpackNextChunk(c, q).conn \in Connection
           /\ UnpackNextChunk(c, q).conn.state = c.state
<1>1. c \in ConnectionsOf(Chunk)
  BY AllChunks
<1>2. /\ UnpackNextChunk(c, q).chunk \in Chunk
      /\ UnpackNextChunk(c, q).rest \in Seq(Chunk)
      /\ UnpackNextChunk(c, q).conn \in ConnectionsOf(Chunk)
      /\ UnpackNextChunk(c, q).conn.state = c.state
  BY <1>1, UnpackNextChunkContents
<1> QED
  BY <1>2 DEF ConnectionsOf

-----------------------------------------------------------------------------
(* Time *)

LEMMA HeartbeatType ==
    ASSUME NEW c \in Connection, NEW idle, NEW quiet
    PROVE  Heartbeat(c, idle, quiet) \subseteq Packet
<1>1. /\ ControlPacket(c, "KEEPALIVE") \in Packet
      /\ ControlPacket(c, "CONNECT") \in Packet
      /\ ControlPacket(c, "CONNECTACCEPT") \in Packet
  BY ControlPacketType DEF Control
<1> QED
  BY <1>1 DEF Heartbeat

\* Update never makes a slot empty and never brings a dead connection back.
LEMMA UpdateType ==
    ASSUME NEW c \in Connection, NEW t \in Clock
    PROVE  /\ Update(c, t) \in Step
           /\ c.state # "OFFLINE" => Update(c, t).conn.state # "OFFLINE"
           /\ Alive(Update(c, t).conn) => Alive(c)
<1> DEFINE dead == TimesOut(c, t)
           c1 == [c EXCEPT !.timeoutSituation = dead, !.state = IF dead THEN "ERROR" ELSE @]
           resent == IF ResendDue(c, t)
                     THEN Queue(c1, <<Head(c.buffer)>>)
                     ELSE [conn |-> c1, out |-> {}]
           idle == t.idle /\ resent.out = {}
           flushed == IF idle /\ c1.state = "ONLINE"
                      THEN Flush(resent.conn)
                      ELSE [conn |-> resent.conn, out |-> {}]
           beat == Heartbeat(c1, idle, t.quiet /\ idle /\ flushed.out = {})
           expired == [c EXCEPT !.timeoutSituation = @ /\ ~(c.state = "ERROR" /\ t.over)]
<1>1. Update(c, t) =
        IF ~Alive(c)
        THEN [conn |-> expired, out |-> {}]
        ELSE [conn |-> flushed.conn, out |-> resent.out \cup flushed.out \cup beat]
  BY DEF Update
<1>2. expired \in Connection /\ expired.state = c.state
  BY DEF Connection
<1>3. dead \in BOOLEAN
  BY DEF TimesOut, Clock, Connection
<1>4. c1 \in Connection /\ c1.state \in {c.state, "ERROR"}
  <2> HIDE DEF dead
  <2> QED
    BY <1>3 DEF Connection, State
<1> HIDE DEF dead, c1, expired
<1>5. resent.conn \in Connection /\ resent.out \subseteq Packet /\ resent.conn.state = c1.state
  <2>1. CASE ResendDue(c, t)
    <3>1. <<Head(c.buffer)>> \in Seq(Chunk)
      BY <2>1, Fields, HeadTailProperties DEF ResendDue
    <3> QED
      BY <1>4, <2>1, <3>1, QueueType
  <2>2. CASE ~ResendDue(c, t)
    BY <1>4, <2>2
  <2> QED
    BY <2>1, <2>2
<1> HIDE DEF resent, idle
<1>6. flushed.conn \in Connection /\ flushed.out \subseteq Packet /\ flushed.conn.state = c1.state
  BY <1>5, FlushType, FlushState
<1> HIDE DEF flushed
<1>7. beat \subseteq Packet
  BY <1>4, HeartbeatType
<1> HIDE DEF beat
<1>8. CASE ~Alive(c)
  BY <1>1, <1>2, <1>8 DEF Step, Alive
<1>9. CASE Alive(c)
  BY <1>1, <1>4, <1>5, <1>6, <1>7, <1>9 DEF Step, Alive
<1> QED
  BY <1>8, <1>9

LEMMA HeartbeatContents ==
    ASSUME NEW G \in SUBSET Chunk, NEW c \in Connection, NEW idle, NEW quiet
    PROVE  Heartbeat(c, idle, quiet) \subseteq PacketsOf(G, c.ack)
<1>1. /\ ControlPacket(c, "KEEPALIVE") \in PacketsOf(G, c.ack)
      /\ ControlPacket(c, "CONNECT") \in PacketsOf(G, c.ack)
      /\ ControlPacket(c, "CONNECTACCEPT") \in PacketsOf(G, c.ack)
  BY ControlPacketContents DEF Control
<1> QED
  BY <1>1 DEF Heartbeat

\* Update may declare a connection dead; otherwise it only sends.
LEMMA UpdateContents ==
    ASSUME NEW G \in SUBSET Chunk, NEW c \in ConnectionsOf(G), NEW t \in Clock
    PROVE  /\ Update(c, t).conn \in ConnectionsOf(G)
           /\ Update(c, t).out \subseteq PacketsOf(G, c.ack)
           /\ Update(c, t).conn.state \in {c.state, "ERROR"}
           /\ Update(c, t).conn.sequence = c.sequence
           /\ Update(c, t).conn.ack = c.ack
           /\ Update(c, t).conn.peerAck = c.peerAck
           /\ Update(c, t).conn.unknownSeq = c.unknownSeq
           /\ Update(c, t).conn.buffer = c.buffer
<1> DEFINE dead == TimesOut(c, t)
           c1 == [c EXCEPT !.timeoutSituation = dead, !.state = IF dead THEN "ERROR" ELSE @]
           resent == IF ResendDue(c, t)
                     THEN Queue(c1, <<Head(c.buffer)>>)
                     ELSE [conn |-> c1, out |-> {}]
           idle == t.idle /\ resent.out = {}
           flushed == IF idle /\ c1.state = "ONLINE"
                      THEN Flush(resent.conn)
                      ELSE [conn |-> resent.conn, out |-> {}]
           beat == Heartbeat(c1, idle, t.quiet /\ idle /\ flushed.out = {})
           expired == [c EXCEPT !.timeoutSituation = @ /\ ~(c.state = "ERROR" /\ t.over)]
<1>1. Update(c, t) =
        IF ~Alive(c)
        THEN [conn |-> expired, out |-> {}]
        ELSE [conn |-> flushed.conn, out |-> resent.out \cup flushed.out \cup beat]
  BY DEF Update
<1>2. /\ c \in Connection
      /\ c.buffer \in Seq(G)
      /\ c.construct.chunks \in Seq(G)
  BY DEF ConnectionsOf
<1>3. /\ expired \in Connection
      /\ expired.construct = c.construct
      /\ SameButConstruct(expired, c)
  BY <1>2 DEF Connection, SameButConstruct
<1>4. dead \in BOOLEAN
  BY <1>2 DEF TimesOut, Clock, Connection
<1> HIDE DEF dead
<1>5. /\ c1 \in Connection
      /\ c1.state \in {c.state, "ERROR"} /\ c1.sequence = c.sequence
      /\ c1.ack = c.ack /\ c1.peerAck = c.peerAck
      /\ c1.unknownSeq = c.unknownSeq /\ c1.buffer = c.buffer
      /\ c1.construct = c.construct
  BY <1>2, <1>4 DEF Connection, State
<1> HIDE DEF c1, expired
<1>6. expired \in ConnectionsOf(G) /\ c1 \in ConnectionsOf(G)
  BY <1>2, <1>3, <1>5 DEF ConnectionsOf, SameButConstruct
<1>7. /\ resent.conn \in ConnectionsOf(G)
      /\ resent.out \subseteq PacketsOf(G, c.ack)
      /\ SameButConstruct(resent.conn, c1)
  <2>1. CASE ResendDue(c, t)
    <3>1. <<Head(c.buffer)>> \in Seq(G)
      BY <1>2, <2>1, HeadTailProperties DEF ResendDue
    <3> QED
      BY <1>5, <1>6, <2>1, <3>1, QueueContents
  <2>2. CASE ~ResendDue(c, t)
    BY <1>6, <2>2 DEF SameButConstruct
  <2> QED
    BY <2>1, <2>2
<1> HIDE DEF resent, idle
<1>8. resent.conn.ack = c.ack
  BY <1>5, <1>7 DEF SameButConstruct
<1>9. /\ flushed.conn \in ConnectionsOf(G)
      /\ flushed.out \subseteq PacketsOf(G, c.ack)
      /\ SameButConstruct(flushed.conn, resent.conn)
  <2>1. CASE idle /\ c1.state = "ONLINE"
    BY <1>7, <1>8, <2>1, FlushContents
  <2>2. CASE ~(idle /\ c1.state = "ONLINE")
    BY <1>7, <2>2 DEF SameButConstruct
  <2> QED
    BY <2>1, <2>2
<1> HIDE DEF flushed
<1>10. beat \subseteq PacketsOf(G, c.ack)
  BY <1>5, HeartbeatContents
<1> HIDE DEF beat
<1>11. CASE ~Alive(c)
  BY <1>1, <1>3, <1>6, <1>11 DEF SameButConstruct
<1>12. CASE Alive(c)
  BY <1>1, <1>5, <1>7, <1>9, <1>10, <1>12 DEF SameButConstruct
<1> QED
  BY <1>11, <1>12

=============================================================================
