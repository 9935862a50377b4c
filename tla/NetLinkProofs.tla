---------------------------- MODULE NetLinkProofs ----------------------------
(***************************************************************************)
(* What is proved of NetLink, for every size of the sequence space, of     *)
(* packets and of the resend buffer, and however many datagrams are in     *)
(* flight.                                                                 *)
(***************************************************************************)
EXTENDS NetLink, NetConnectionProofs

-----------------------------------------------------------------------------
(* Type correctness *)

LEMMA PeerType ==
    ASSUME NEW e \in End
    PROVE  Peer(e) \in End /\ Peer(e) # e
BY DEF Peer, End

LEMMA TransmitType ==
    ASSUME TypeOK, NEW e \in End, NEW out \in SUBSET Packet, Transmit(e, out)
    PROVE  net' \in [End -> SUBSET Datagram]
<1> DEFINE new == {[pkt |-> p, rcvd |-> Len(log[e])] : p \in out}
<1>1. Len(log[e]) \in Nat
  BY LenProperties DEF TypeOK
<1>2. new \subseteq Datagram
  BY <1>1 DEF Datagram
<1>3. Peer(e) \in End
  BY PeerType
<1>4. net[Peer(e)] \cup new \in SUBSET Datagram
  BY <1>2, <1>3 DEF TypeOK
<1>5. \/ net' = [net EXCEPT ![Peer(e)] = net[Peer(e)] \cup new]
      \/ net' = net
  BY DEF Transmit
<1> HIDE DEF new
<1> QED
  BY <1>4, <1>5 DEF TypeOK

LEMMA DeliverType ==
    ASSUME TypeOK, NEW e \in End, NEW c \in Connection, NEW q \in Seq(Chunk),
           Deliver(e, UnpackNextChunk(c, q))
    PROVE  inbox' \in [End -> Seq(Chunk)] /\ log' \in [End -> Seq(Nat)]
<1> DEFINE u == UnpackNextChunk(c, q)
<1>1. u.rest \in Seq(Chunk) /\ u.chunk \in Chunk
  BY UnpackNextChunkType
<1> HIDE DEF u
<1>2. Deliver(e, u)
  BY DEF u
<1>3. inbox' \in [End -> Seq(Chunk)]
  BY <1>1, <1>2 DEF Deliver, TypeOK
<1>4. Append(log[e], u.chunk.data) \in Seq(Nat)
  BY <1>1, AppendProperties DEF TypeOK, Chunk
<1>5. log' \in [End -> Seq(Nat)]
  BY <1>2, <1>4 DEF Deliver, TypeOK
<1> QED
  BY <1>3, <1>5

\* Every step keeps the type, one action at a time.
LEMMA TypeStep == TypeOK /\ [Next]_vars => TypeOK'
<1> SUFFICES ASSUME TypeOK, [Next]_vars
             PROVE  TypeOK'
  OBVIOUS
<1>1. ASSUME NEW e \in End, NEW vital \in BOOLEAN, NEW flush \in BOOLEAN, Send(e, vital, flush)
      PROVE  TypeOK'
  <2> DEFINE n == sent[e] + 1
             q == QueueChunk(conn[e], vital, IF vital THEN n ELSE 0)
             f == IF flush /\ (e = "client" \/ q.saved)
                  THEN Flush(q.conn)
                  ELSE [conn |-> q.conn, out |-> {}]
  <2>1. n \in Nat /\ conn[e] \in Connection
    BY DEF TypeOK
  <2>2. q.conn \in Connection /\ q.out \subseteq Packet /\ q.saved \in BOOLEAN
    <3> HIDE DEF n
    <3> QED
      BY <2>1, QueueChunkType
  <2> HIDE DEF q
  <2>3. f.conn \in Connection /\ f.out \subseteq Packet
    BY <2>2, FlushType
  <2>4. /\ conn' = [conn EXCEPT ![e] = f.conn]
        /\ sent' = [sent EXCEPT ![e] = IF vital THEN n ELSE @]
        /\ unsaved' = [unsaved EXCEPT ![e] = IF vital /\ ~q.saved THEN @ \cup {n} ELSE @]
        /\ Transmit(e, q.out \cup f.out)
        /\ UNCHANGED <<inbox, log>>
    BY <1>1 DEF Send, q
  <2> HIDE DEF f, n
  <2>5. net' \in [End -> SUBSET Datagram]
    BY <2>2, <2>3, <2>4, TransmitType
  <2> QED
    BY <2>1, <2>3, <2>4, <2>5 DEF TypeOK
<1>2. ASSUME NEW e \in End, NEW d \in net[e], Receive(e, d)
      PROVE  TypeOK'
  <2> DEFINE f == Feed(conn[e], d.pkt)
             q == IF f.ok THEN d.pkt.chunks ELSE <<>>
             u == UnpackNextChunk(f.conn, q)
  <2>1. d.pkt \in Packet /\ d.pkt.chunks \in Seq(Chunk)
    BY DEF TypeOK, Datagram, Packet
  <2>2. f.conn \in Connection /\ f.out \subseteq Packet
    BY <2>1, FeedType DEF TypeOK
  <2>3. q \in Seq(Chunk)
    BY <2>1, EmptySeq
  <2>4. /\ conn' = [conn EXCEPT ![e] = u.conn]
        /\ Deliver(e, u)
        /\ Transmit(e, f.out)
        /\ UNCHANGED <<sent, unsaved>>
    BY <1>2 DEF Receive
  <2> HIDE DEF f, q
  <2>5. u.conn \in Connection
    BY <2>2, <2>3, UnpackNextChunkType
  <2>6. inbox' \in [End -> Seq(Chunk)] /\ log' \in [End -> Seq(Nat)]
    BY <2>2, <2>3, <2>4, DeliverType
  <2>7. net' \in [End -> SUBSET Datagram]
    BY <2>2, <2>4, TransmitType
  <2> HIDE DEF u
  <2> QED
    BY <2>4, <2>5, <2>6, <2>7 DEF TypeOK
<1>3. ASSUME NEW e \in End, NEW d \in net[e], Lose(e, d)
      PROVE  TypeOK'
  BY <1>3 DEF Lose, TypeOK
<1>4. ASSUME NEW e \in End, ReceiveNext(e)
      PROVE  TypeOK'
  <2> DEFINE u == UnpackNextChunk(conn[e], inbox[e])
  <2>1. conn[e] \in Connection /\ inbox[e] \in Seq(Chunk)
    BY DEF TypeOK
  <2>2. /\ conn' = [conn EXCEPT ![e] = u.conn]
        /\ Deliver(e, u)
        /\ UNCHANGED <<net, sent, unsaved>>
    BY <1>4 DEF ReceiveNext
  <2>3. u.conn \in Connection
    BY <2>1, UnpackNextChunkType
  <2>4. inbox' \in [End -> Seq(Chunk)] /\ log' \in [End -> Seq(Nat)]
    BY <2>1, <2>2, DeliverType
  <2> HIDE DEF u
  <2> QED
    BY <2>2, <2>3, <2>4 DEF TypeOK
<1>5. ASSUME NEW e \in End, NEW t \in Clock, UpdateConnection(e, t)
      PROVE  TypeOK'
  <2> DEFINE u == Update(conn[e], t)
             d == IF u.conn.state = "ERROR"
                  THEN Disconnect(u.conn)
                  ELSE [conn |-> u.conn, out |-> {}]
  <2>1. u.conn \in Connection /\ u.out \subseteq Packet
    BY UpdateType DEF TypeOK, Step
  <2> HIDE DEF u
  <2>2. d.conn \in Connection /\ d.out \subseteq Packet
    BY <2>1, DisconnectType DEF Step
  <2>3. /\ conn' = [conn EXCEPT ![e] = d.conn]
        /\ Transmit(e, u.out \cup d.out)
        /\ UNCHANGED <<inbox, sent, unsaved, log>>
    BY <1>5 DEF UpdateConnection, u
  <2> HIDE DEF d
  <2>4. net' \in [End -> SUBSET Datagram]
    BY <2>1, <2>2, <2>3, TransmitType
  <2> QED
    BY <2>2, <2>3, <2>4 DEF TypeOK
<1>6. ASSUME NEW e \in End, Close(e)
      PROVE  TypeOK'
  <2> DEFINE d == Disconnect(conn[e])
  <2>1. d.conn \in Connection /\ d.out \subseteq Packet
    BY DisconnectType DEF TypeOK, Step
  <2>2. /\ conn' = [conn EXCEPT ![e] = d.conn]
        /\ Transmit(e, d.out)
        /\ UNCHANGED <<inbox, sent, unsaved, log>>
    BY <1>6 DEF Close
  <2> HIDE DEF d
  <2>3. net' \in [End -> SUBSET Datagram]
    BY <2>1, <2>2, TransmitType
  <2> QED
    BY <2>1, <2>2, <2>3 DEF TypeOK
<1>7. CASE UNCHANGED vars
  BY <1>7 DEF vars, TypeOK
<1> QED
  BY <1>1, <1>2, <1>3, <1>4, <1>5, <1>6, <1>7 DEF Next

LEMMA TypeInit == Init => TypeOK
<1> SUFFICES ASSUME Init
             PROVE  TypeOK
  OBVIOUS
<1>1. DirectInit(FALSE) \in Connection
  BY ResetType DEF DirectInit, Connection, State
<1>2. <<>> \in Seq(Chunk) /\ <<>> \in Seq(Nat)
  BY EmptySeq
<1> QED
  BY <1>1, <1>2 DEF Init, TypeOK

\* In every reachable state the two connections hold what their fields and
\* the wire format allow: in particular every sequence number and ack is one
\* of 0 .. NET_MAX_SEQUENCE - 1 (QueueChunk, UnpackNextChunk, Feed).
THEOREM TypeCorrect == Spec => []TypeOK
<1> QED
  BY TypeInit, TypeStep, PTL DEF Spec

-----------------------------------------------------------------------------
(* The inductive invariant *)

LEMMA Ends ==
    ASSUME NEW x \in End
    PROVE  Peer(x) \in End /\ Peer(x) # x /\ Peer(Peer(x)) = x /\ End = {x, Peer(x)}
BY DEF Peer, End

LEMMA NumberedGrows ==
    ASSUME NEW m \in Nat, NEW n \in Nat, m <= n
    PROVE  /\ Numbered(m) \subseteq Numbered(n)
           /\ Numbered(n) \in SUBSET Chunk
BY DEF Numbered

\* An end sends out: what is then on its way to the peer.
LEMMA TransmitContents ==
    ASSUME TypeOK, NEW x \in End, NEW out, NEW G \in SUBSET Chunk,
           out \subseteq PacketsOf(G, conn[x].ack),
           \A d \in net[Peer(x)] : d.pkt.chunks \in Seq(G),
           Transmit(x, out)
    PROVE  /\ net'[x] = net[x]
           /\ \A d \in net'[Peer(x)] : d.pkt.chunks \in Seq(G)
           /\ Acks(Peer(x)) /\ conn[x].ack = Len(log[x]) % MaxSeq =>
                \A d \in net'[Peer(x)] : d.rcvd <= Len(log[x]) /\ d.pkt.ack = d.rcvd % MaxSeq
<1> DEFINE new == {[pkt |-> p, rcvd |-> Len(log[x])] : p \in out}
           y == Peer(x)
<1>1. y \in End /\ y # x /\ Peer(y) = x
  BY Ends
<1>2. Len(log[x]) \in Nat
  BY LenProperties DEF TypeOK
<1>3. \/ net' = [net EXCEPT ![y] = net[y] \cup new]
      \/ net' = net
  BY DEF Transmit
<1>4. \A d \in new : /\ d.pkt.chunks \in Seq(G)
                     /\ d.pkt.ack = conn[x].ack
                     /\ d.rcvd = Len(log[x])
  BY DEF PacketsOf
<1> HIDE DEF new, y
<1>5. net'[x] = net[x] /\ net'[y] \subseteq net[y] \cup new
  BY <1>1, <1>3 DEF TypeOK
<1>6. \A d \in net'[y] : d.pkt.chunks \in Seq(G)
  BY <1>4, <1>5 DEF y
<1>7. ASSUME Acks(y), conn[x].ack = Len(log[x]) % MaxSeq, NEW d \in net'[y]
      PROVE  d.rcvd <= Len(log[x]) /\ d.pkt.ack = d.rcvd % MaxSeq
  <2>1. CASE d \in net[y]
    BY <1>1, <1>7, <2>1 DEF Acks
  <2>2. CASE d \in new
    BY <1>2, <1>4, <1>7, <2>2
  <2> QED
    BY <1>5, <2>1, <2>2
<1> QED
  BY <1>5, <1>6, <1>7 DEF y

\* What a step of end x that sends no new chunk leaves of the invariant for
\* the chunks from x to y.
LEMMA Outgoing ==
    ASSUME TypeOK, Inductive, NEW x \in End, NEW y \in End, Peer(x) = y, x # y,
           NEW c \in ConnectionsOf(Numbered(sent[x])),
           conn' = [conn EXCEPT ![x] = c],
           sent' = sent, unsaved' = unsaved,
           inbox'[y] = inbox[y], log'[y] = log[y], net'[x] = net[x],
           \A d \in net'[y] : d.pkt.chunks \in Seq(Numbered(sent[x])),
           c.state \in {"OFFLINE", "ONLINE", "ERROR"},
           c.state # "OFFLINE" => conn[x].state # "OFFLINE" /\ c.sequence = conn[x].sequence,
           Intact(x) => Sender(x)'
    PROVE  Labelled(x)' /\ (Intact(x)' => Sender(x)' /\ Receiver(y)' /\ Acks(x)')
<1>1. conn'[x] = c /\ conn'[y] = conn[y]
  BY DEF TypeOK
<1>2. Labelled(x)
  BY DEF Inductive
<1>3. Labelled(x)'
  BY <1>1, <1>2 DEF Labelled, ConnectionsOf
<1>4. ASSUME Intact(x)'
      PROVE  Sender(x)' /\ Receiver(y)' /\ Acks(x)'
  <2>1. Intact(x)
    BY <1>4 DEF Intact
  <2>2. Receiver(y) /\ Acks(x) /\ Peer(y) = x
    BY <2>1, Ends DEF Inductive
  <2>3. Receiver(y)'
    BY <1>1, <2>2 DEF Receiver
  <2>4. Acks(x)'
    BY <2>2 DEF Acks
  <2> QED
    BY <2>1, <2>3, <2>4
<1> QED
  BY <1>3, <1>4

\* What a step of end x that delivers nothing leaves of the invariant for the
\* chunks from y to x.
LEMMA Incoming ==
    ASSUME TypeOK, Inductive, NEW x \in End, NEW y \in End, Peer(x) = y, x # y,
           NEW c \in Connection,
           conn' = [conn EXCEPT ![x] = c],
           sent'[y] = sent[y], unsaved'[y] = unsaved[y],
           inbox' = inbox, log' = log, net'[x] = net[x],
           Acks(y) /\ conn[x].ack = Len(log[x]) % MaxSeq =>
               \A d \in net'[y] : d.rcvd <= Len(log[x]) /\ d.pkt.ack = d.rcvd % MaxSeq,
           conn[x].state # "OFFLINE",
           c.state # "OFFLINE" => c.ack = conn[x].ack /\ c.unknownSeq = conn[x].unknownSeq
    PROVE  Labelled(y)' /\ (Intact(y)' => Sender(y)' /\ Receiver(x)' /\ Acks(y)')
<1>1. conn'[x] = c /\ conn'[y] = conn[y] /\ Peer(y) = x
  BY Ends DEF TypeOK
<1>2. Labelled(y)
  BY DEF Inductive
<1>3. Labelled(y)'
  BY <1>1, <1>2 DEF Labelled
<1>4. ASSUME Intact(y)'
      PROVE  Sender(y)' /\ Receiver(x)' /\ Acks(y)'
  <2>1. Intact(y)
    BY <1>4 DEF Intact
  <2>2. Sender(y) /\ Receiver(x) /\ Acks(y)
    BY <1>1, <2>1 DEF Inductive
  <2>3. Sender(y)'
    BY <1>1, <2>2 DEF Sender, Consecutive
  <2>4. Receiver(x)'
    BY <1>1, <2>2 DEF Receiver
  <2>5. Acks(y)'
    BY <1>1, <2>2 DEF Acks, Receiver
  <2> QED
    BY <2>3, <2>4, <2>5
<1> QED
  BY <1>3, <1>4

LEMMA BothWays ==
    ASSUME NEW x \in End,
           Labelled(x)' /\ (Intact(x)' => Sender(x)' /\ Receiver(Peer(x))' /\ Acks(x)'),
           Labelled(Peer(x))' /\
               (Intact(Peer(x))' => Sender(Peer(x))' /\ Receiver(x)' /\ Acks(Peer(x))')
    PROVE  Inductive'
<1>1. End = {x, Peer(x)} /\ Peer(Peer(x)) = x
  BY Ends
<1>2. ASSUME NEW e \in End
      PROVE  Labelled(e)' /\ (Intact(e)' => Sender(e)' /\ Receiver(Peer(e))' /\ Acks(e)')
  <2>1. CASE e = x
    BY <2>1
  <2>2. CASE e = Peer(x)
    BY <1>1, <2>2
  <2> QED
    BY <1>1, <2>1, <2>2
<1> QED
  BY <1>2 DEF Inductive

LEMMA OldChunks ==
    ASSUME TypeOK, Inductive, NEW x \in End, NEW n \in Nat, sent[x] <= n
    PROVE  /\ conn[x] \in ConnectionsOf(Numbered(n))
           /\ Numbered(n) \in SUBSET Chunk
           /\ \A d \in net[Peer(x)] : d.pkt.chunks \in Seq(Numbered(n))
<1>1. sent[x] \in Nat /\ conn[x] \in Connection
  BY DEF TypeOK
<1>2. Numbered(sent[x]) \subseteq Numbered(n) /\ Numbered(n) \in SUBSET Chunk
  BY <1>1, NumberedGrows
<1>3. Labelled(x)
  BY DEF Inductive
<1>4. conn[x].buffer \in Seq(Numbered(n)) /\ conn[x].construct.chunks \in Seq(Numbered(n))
  BY <1>2, <1>3, SeqMonotone DEF Labelled
<1>5. \A d \in net[Peer(x)] : d.pkt.chunks \in Seq(Numbered(n))
  BY <1>2, <1>3, SeqMonotone DEF Labelled
<1> QED
  BY <1>1, <1>2, <1>4, <1>5 DEF ConnectionsOf

\* Send: the new chunk takes the next number, and the buffer, if it has room,
\* stays consecutive.
LEMMA SendStep ==
    ASSUME TypeOK, Inductive, NEW x \in End, NEW vital \in BOOLEAN, NEW flush \in BOOLEAN,
           Send(x, vital, flush)
    PROVE  Inductive'
<1> DEFINE y == Peer(x)
           c == conn[x]
           n == sent[x] + 1
           m == IF vital THEN n ELSE sent[x]
           data == IF vital THEN n ELSE 0
           G == Numbered(m)
           k == NewChunk(c, vital, data)
           q == QueueChunk(c, vital, data)
           f == IF flush /\ (x = "client" \/ q.saved)
                THEN Flush(q.conn)
                ELSE [conn |-> q.conn, out |-> {}]
<1>1. y \in End /\ y # x /\ Peer(y) = x
  BY Ends
<1>2. /\ conn' = [conn EXCEPT ![x] = f.conn]
      /\ sent' = [sent EXCEPT ![x] = m]
      /\ unsaved' = [unsaved EXCEPT ![x] = IF vital /\ ~q.saved THEN @ \cup {n} ELSE @]
      /\ Transmit(x, q.out \cup f.out)
      /\ inbox' = inbox /\ log' = log
      /\ c.state # "OFFLINE"
  BY DEF Send
<1>3. sent[x] \in Nat /\ m \in Nat /\ sent[x] <= m /\ data \in Nat /\ n \in Nat
  BY DEF TypeOK
<1>4. c \in Connection /\ Labelled(x)
  BY DEF TypeOK, Inductive
<1>5. /\ c \in ConnectionsOf(G)
      /\ G \in SUBSET Chunk
      /\ \A d \in net[y] : d.pkt.chunks \in Seq(G)
  BY <1>3, OldChunks
<1>6. c.sequence = sent[x] % MaxSeq
  BY <1>2, <1>4 DEF Labelled
<1>7. /\ k.vital = vital
      /\ k.data = data
      /\ k.seq = m % MaxSeq
      /\ k \in G
  <2>1. MaxSeq \in Nat \ {0}
    BY NetConnectionAssumption
  <2>2. NextSeq(c.sequence) = n % MaxSeq
    BY <1>3, <1>6, <2>1, ModSucc DEF NextSeq
  <2>3. k.vital = vital /\ k.data = data /\ k.seq = m % MaxSeq
    BY <1>6, <2>2 DEF NewChunk
  <2>4. k \in Chunk
    BY <1>3, <1>4, Fields, NextSeqType DEF NewChunk, Chunk
  <2> HIDE DEF k
  <2>5. k \in G
    <3>1. vital => data = m /\ m \in 1 .. m
      BY <1>3
    <3> HIDE DEF m, data
    <3> QED
      BY <2>3, <2>4, <3>1 DEF Numbered
  <2> QED
    BY <2>3, <2>5
<1> HIDE DEF k, G, data
<1>8. /\ q.conn \in ConnectionsOf(G)
      /\ q.out \subseteq PacketsOf(G, c.ack)
      /\ q.saved \in BOOLEAN
      /\ q.saved <=> Alive(c) /\ (vital => Len(c.buffer) < BufCap)
      /\ q.conn.state = c.state
      /\ q.conn.sequence = k.seq
      /\ q.conn.ack = c.ack
      /\ q.conn.peerAck = c.peerAck
      /\ q.conn.unknownSeq = c.unknownSeq
      /\ q.conn.buffer = IF vital /\ Len(c.buffer) < BufCap /\ Alive(c)
                         THEN Append(c.buffer, k) ELSE c.buffer
  BY <1>3, <1>5, <1>7, QueueChunkContents DEF k
<1> HIDE DEF q, c
<1>9. /\ f.conn \in ConnectionsOf(G)
      /\ f.out \subseteq PacketsOf(G, c.ack)
      /\ SameButConstruct(f.conn, q.conn)
  <2>1. CASE flush /\ (x = "client" \/ q.saved)
    BY <1>5, <1>8, <2>1, FlushContents
  <2>2. CASE ~(flush /\ (x = "client" \/ q.saved))
    BY <1>8, <2>2 DEF SameButConstruct
  <2> QED
    BY <2>1, <2>2
<1> HIDE DEF f
<1>10. /\ conn'[x] = f.conn /\ conn'[y] = conn[y]
       /\ sent'[x] = m /\ sent'[y] = sent[y]
       /\ unsaved'[y] = unsaved[y]
       /\ unsaved'[x] = (IF vital /\ ~q.saved THEN unsaved[x] \cup {n} ELSE unsaved[x])
  BY <1>1, <1>2 DEF TypeOK
<1>11. /\ net'[x] = net[x]
       /\ \A d \in net'[y] : d.pkt.chunks \in Seq(G)
       /\ Acks(y) /\ c.ack = Len(log[x]) % MaxSeq =>
            \A d \in net'[y] : d.rcvd <= Len(log[x]) /\ d.pkt.ack = d.rcvd % MaxSeq
  <2>1. q.out \cup f.out \subseteq PacketsOf(G, c.ack)
    BY <1>8, <1>9
  <2> QED
    BY <1>2, <1>5, <2>1, TransmitContents DEF c
<1>12. Labelled(y)' /\ (Intact(y)' => Sender(y)' /\ Receiver(x)' /\ Acks(y)')
  <2>1. f.conn \in Connection
    BY <1>9 DEF ConnectionsOf
  <2>2. f.conn.ack = c.ack /\ f.conn.unknownSeq = c.unknownSeq
    BY <1>8, <1>9 DEF SameButConstruct
  <2> QED
    BY <1>1, <1>2, <1>10, <1>11, <2>1, <2>2, Incoming DEF c
<1>13. Labelled(x)'
  <2>1. inbox'[y] \in Seq(G)
    <3>1. inbox[y] \in Seq(Numbered(sent[x])) /\ Numbered(sent[x]) \subseteq G
      BY <1>3, <1>4, NumberedGrows DEF Labelled, G
    <3> QED
      BY <1>2, <3>1, SeqMonotone
  <2>2. f.conn.state \in {"OFFLINE", "ONLINE", "ERROR"}
    BY <1>4, <1>8, <1>9 DEF Labelled, SameButConstruct, c
  <2>3. f.conn.sequence = m % MaxSeq
    BY <1>7, <1>8, <1>9 DEF SameButConstruct
  <2> QED
    BY <1>9, <1>10, <1>11, <2>1, <2>2, <2>3 DEF Labelled, ConnectionsOf, G
<1>14. ASSUME Intact(x)'
       PROVE  Sender(x)' /\ Receiver(y)' /\ Acks(x)'
  <2>1. Intact(x) /\ (vital => q.saved)
    BY <1>10, <1>14 DEF Intact
  <2>2. Sender(x) /\ Receiver(y) /\ Acks(x)
    BY <2>1 DEF Inductive
  <2> DEFINE b == c.buffer
             kept == Len(b)
  <2>3. /\ kept \in Nat /\ kept <= BufCap /\ kept <= sent[x]
        /\ Consecutive(b, sent[x] - kept)
        /\ b \in Seq(G)
    BY <1>2, <1>5, <2>2, LenProperties DEF Sender, ConnectionsOf, c
  <2>4. PICK p \in sent[x] - kept .. Len(log[y]) : c.peerAck = p % MaxSeq
    BY <1>2, <2>2 DEF Sender, c
  <2>5. f.conn.peerAck = c.peerAck /\ f.conn.buffer = q.conn.buffer
    BY <1>8, <1>9 DEF SameButConstruct
  <2>6. BufCap \in Nat /\ Len(log[y]) \in Nat
    BY <1>1, NetConnectionAssumption, LenProperties DEF TypeOK
  <2>7. /\ Len(f.conn.buffer) <= BufCap /\ Len(f.conn.buffer) <= m
        /\ m - Len(f.conn.buffer) = sent[x] - kept
        /\ Consecutive(f.conn.buffer, sent[x] - kept)
    <3>1. CASE vital
      <4>1. f.conn.buffer = Append(b, k) /\ kept < BufCap
        BY <1>8, <2>1, <2>5, <3>1
      <4>2. /\ Len(Append(b, k)) = kept + 1
            /\ \A i \in 1 .. kept : Append(b, k)[i] = b[i]
            /\ Append(b, k)[kept + 1] = k
        BY <1>7, <2>3, AppendProperties
      <4>3. k = [vital |-> TRUE, seq |-> n % MaxSeq, data |-> n]
        BY <1>7, <3>1 DEF k, NewChunk, data
      <4> HIDE DEF b, kept
      <4>4. sent[x] - kept + (kept + 1) = n
        BY <1>3, <2>3
      <4>5. ASSUME NEW i \in 1 .. kept + 1
            PROVE  Append(b, k)[i] =
                       [vital |-> TRUE, seq |-> (sent[x] - kept + i) % MaxSeq,
                        data |-> sent[x] - kept + i]
        <5>1. CASE i = kept + 1
          BY <4>2, <4>3, <4>4, <5>1
        <5>2. CASE i \in 1 .. kept
          BY <2>3, <4>2, <5>2 DEF Consecutive, kept
        <5>3. i = kept + 1 \/ i \in 1 .. kept
          BY <2>3
        <5> QED
          BY <5>1, <5>2, <5>3
      <4> QED
        BY <1>3, <2>3, <2>6, <3>1, <4>1, <4>2, <4>5 DEF Consecutive
    <3>2. CASE ~vital
      BY <1>3, <1>8, <2>3, <2>5, <3>2
    <3> QED
      BY <3>1, <3>2
  <2> HIDE DEF b, kept
  <2>8. Sender(x)'
    BY <1>2, <1>10, <2>4, <2>5, <2>7 DEF Sender
  <2>9. Receiver(y)'
    <3>1. m <= Len(log[y]) + BufCap
      <4> DEFINE kept2 == Len(f.conn.buffer)
      <4>1. kept2 \in Nat
        BY <1>9, LenProperties DEF ConnectionsOf
      <4>2. kept2 <= BufCap /\ m - kept2 = sent[x] - kept
        BY <2>7
      <4> HIDE DEF kept2
      <4> QED
        BY <1>3, <2>3, <2>4, <2>6, <4>1, <4>2, SMTT(20)
    <3>2. Len(log[y]) <= m
      BY <1>1, <1>3, <2>2, <2>6 DEF Receiver
    <3> QED
      BY <1>1, <1>2, <1>10, <2>2, <3>1, <3>2 DEF Receiver
  <2>10. Acks(x)'
    BY <1>2, <1>11, <2>2 DEF Acks
  <2> QED
    BY <2>8, <2>9, <2>10
<1> QED
  BY <1>12, <1>13, <1>14, BothWays

\* What is left of a packet after some of its chunks.
LEMMA RestContents ==
    ASSUME NEW G \in SUBSET Chunk, NEW q \in Seq(G), NEW n \in 0 .. Len(q), NEW got
    PROVE  /\ SubSeq(q, n + 2, Len(q)) \in Seq(G)
           /\ \A i \in 1 .. Len(SubSeq(q, n + 2, Len(q))) :
                  SubSeq(q, n + 2, Len(q))[i] = q[n + 1 + i] /\ n + 1 + i \in 1 .. Len(q)
           /\ Recent(q, got) => Recent(SubSeq(q, n + 2, Len(q)), got)
<1> DEFINE r == SubSeq(q, n + 2, Len(q))
<1>1. Len(q) \in Nat
  BY LenProperties
<1>2. \A i \in n + 2 .. Len(q) : q[i] \in G
  BY ElementOfSeq
<1>3. /\ r \in Seq(G)
      /\ Len(r) = IF n + 2 <= Len(q) THEN Len(q) - (n + 2) + 1 ELSE 0
      /\ \A i \in 1 .. Len(q) - (n + 2) + 1 : r[i] = q[n + 2 + i - 1]
  BY <1>1, <1>2, SubSeqProperties
<1> HIDE DEF r
<1>4. \A i \in 1 .. Len(r) : r[i] = q[n + 1 + i] /\ n + 1 + i \in 1 .. Len(q)
  BY <1>1, <1>3
<1>5. Recent(q, got) => Recent(r, got)
  BY <1>4 DEF Recent
<1> QED
  BY <1>3, <1>4, <1>5 DEF r

\* Recv hands over the next chunk: the numbers that can be in the packet lie so
\* close together that its sequence number identifies it.
LEMMA DeliverStep ==
    ASSUME TypeOK, NEW x \in End, NEW n \in Nat, NEW c \in Connection,
           NEW q \in Seq(Numbered(n)),
           c.ack = Len(log[x]) % MaxSeq, ~c.unknownSeq,
           Len(log[x]) <= n, n <= Len(log[x]) + BufCap,
           \A i \in 1 .. Len(log[x]) : log[x][i] = i,
           Recent(q, Len(log[x])),
           conn[x].state # "OFFLINE",
           Deliver(x, UnpackNextChunk(c, q))
    PROVE  /\ Len(log[x]) <= Len(log'[x])
           /\ Len(log'[x]) <= n
           /\ \A i \in 1 .. Len(log'[x]) : log'[x][i] = i
           /\ UnpackNextChunk(c, q).conn.ack = Len(log'[x]) % MaxSeq
           /\ ~UnpackNextChunk(c, q).conn.unknownSeq
           /\ Recent(UnpackNextChunk(c, q).rest, Len(log'[x]))
<1> DEFINE u == UnpackNextChunk(c, q)
           got == Len(log[x])
<1>1. /\ MaxSeq \in Nat \ {0} /\ BufCap \in Nat \ {0} /\ Lag \in Nat
      /\ Lag + BufCap < MaxSeq
  BY NetConnectionAssumption, NetLinkAssumption
<1>2. got \in Nat /\ log[x] \in Seq(Nat)
  BY LenProperties DEF TypeOK
<1>3. Numbered(n) \in SUBSET Chunk /\ q \in Seq(Chunk) /\ Len(q) \in Nat
  <2>1. Numbered(n) \in SUBSET Chunk
    BY DEF Numbered
  <2> QED
    BY <2>1, SeqMonotone, LenProperties
<1>4. u.chunk \in Chunk /\ Unpacked(c, q, u)
  <2>1. c \in ConnectionsOf(Chunk) /\ Chunk \in SUBSET Chunk
    BY AllChunks
  <2> QED
    BY <1>3, <2>1, UnpackNextChunkContents
<1> HIDE DEF u
<1>5. PICK m \in 0 .. Len(q) :
          /\ u.got <=> m < Len(q)
          /\ u.got => u.chunk = q[m + 1] /\ Deliverable(c, q[m + 1])
          /\ u.rest = SubSeq(q, m + 2, Len(q))
  BY <1>4 DEF Unpacked
<1>6. /\ Recent(u.rest, got)
      /\ \A i \in 1 .. Len(u.rest) : u.rest[i] = q[m + 1 + i] /\ m + 1 + i \in 1 .. Len(q)
  BY <1>3, <1>5, RestContents
<1>7. log' = IF u.got /\ u.chunk.vital
             THEN [log EXCEPT ![x] = Append(@, u.chunk.data)]
             ELSE log
  BY DEF Deliver, u
<1>8. CASE u.got /\ u.chunk.vital
  <2> DEFINE k == u.chunk
  <2>1. k = q[m + 1] /\ m + 1 \in 1 .. Len(q) /\ Deliverable(c, k)
    BY <1>3, <1>5, <1>8
  <2>2. k \in Numbered(n)
    BY <2>1, ElementOfSeq
  <2>3. k.data \in 1 .. n /\ k.seq = k.data % MaxSeq
    BY <1>8, <2>2 DEF Numbered
  <2>4. got <= k.data + Lag
    BY <1>8, <2>1 DEF Recent
  <2>5. k.seq = (got + 1) % MaxSeq
    <3>1. k.seq = NextSeq(c.ack)
      BY <1>8, <2>1 DEF Deliverable, InSequence
    <3> QED
      BY <1>1, <1>2, <3>1, ModSucc DEF NextSeq
  <2>6. k.data = got + 1
    <3> DEFINE a == k.data
               b == got + 1
    <3>1. a \in Nat /\ b \in Nat /\ a - b < MaxSeq /\ b - a < MaxSeq
      <4>1. a \in 1 .. n /\ n <= got + BufCap /\ got <= a + Lag
        BY <2>3, <2>4
      <4> HIDE DEF k, got, a
      <4> QED
        BY <1>1, <1>2, <4>1
    <3>2. a % MaxSeq = b % MaxSeq
      BY <2>3, <2>5
    <3> HIDE DEF a, b
    <3>3. a = b
      BY <1>1, <3>1, <3>2, ModEqual
    <3> QED
      BY <3>3 DEF a, b
  <2>7. log'[x] = Append(log[x], k.data)
    BY <1>7, <1>8 DEF TypeOK
  <2>8. /\ Len(log'[x]) = got + 1
        /\ \A i \in 1 .. got : log'[x][i] = log[x][i]
        /\ log'[x][got + 1] = got + 1
    BY <1>2, <2>3, <2>6, <2>7, AppendProperties
  <2>9. \A i \in 1 .. got + 1 : log'[x][i] = i
    <3>1. ASSUME NEW i \in 1 .. got + 1
          PROVE  i = got + 1 \/ i \in 1 .. got
      BY <1>2
    <3> HIDE DEF got
    <3> QED
      BY <2>8, <3>1 DEF got
  <2>10. Recent(u.rest, got + 1)
    <3>1. ASSUME NEW i \in 1 .. Len(u.rest), u.rest[i].vital
          PROVE  got + 1 <= u.rest[i].data + Lag
      <4>1. u.rest[i] = q[m + 1 + i] /\ m + 1 + i \in 1 .. Len(q)
        BY <1>6
      <4>2. q[m + 1].vital /\ q[m + 1].data = got + 1
        BY <1>8, <2>1, <2>6
      <4> QED
        BY <2>1, <3>1, <4>1, <4>2 DEF Recent
    <3> QED
      BY <1>6, <3>1 DEF Recent
  <2> QED
    BY <1>2, <1>4, <1>8, <2>3, <2>5, <2>6, <2>8, <2>9, <2>10 DEF u, Unpacked
<1>9. CASE ~(u.got /\ u.chunk.vital)
  BY <1>2, <1>4, <1>6, <1>7, <1>9 DEF u, Unpacked
<1> QED
  BY <1>8, <1>9

\* What Sender says of the connection c, with s chunks sent and d delivered.
Keeps(c, s, d) ==
    /\ Len(c.buffer) <= BufCap /\ Len(c.buffer) <= s
    /\ Consecutive(c.buffer, s - Len(c.buffer))
    /\ \E p \in s - Len(c.buffer) .. d : c.peerAck = p % MaxSeq

\* Feed takes an ack: it is one the peer has really sent, so the chunks released
\* are chunks the peer has delivered.  s is what has been sent, d what the peer
\* has delivered, r what it had delivered when it sent the packet p.
LEMMA Released ==
    ASSUME NEW c, NEW p, NEW f, NEW s \in Nat, NEW d \in Nat,
           c.buffer \in Seq(Chunk), c.sequence = s % MaxSeq,
           Keeps(c, s, d), d <= s, s <= d + BufCap,
           \E r \in 0 .. d : d <= r + Lag /\ p.ack = r % MaxSeq,
           Fed(c, p, f)
    PROVE  Keeps(f.conn, s, d)
<1> DEFINE b == c.buffer
           kept == Len(b)
<1>1. /\ BufCap \in Nat \ {0} /\ Lag \in Nat /\ MaxSeq \in Nat \ {0}
      /\ BufCap < MaxSeq \div 2 /\ MaxSeq \div 2 \in Nat /\ MaxSeq \div 2 <= MaxSeq
      /\ Lag + BufCap < MaxSeq
  BY NetConnectionAssumption, NetLinkAssumption
<1>2. kept \in Nat /\ kept <= BufCap /\ kept <= s /\ b \in Seq(Chunk) /\ Consecutive(b, s - kept)
  BY LenProperties DEF Keeps
<1>3. PICK a \in s - kept .. d : c.peerAck = a % MaxSeq
  BY DEF Keeps
<1>4. PICK r \in 0 .. d : d <= r + Lag /\ p.ack = r % MaxSeq
  OBVIOUS
<1> HIDE DEF b, kept
<1>5. a \in Nat /\ a <= s /\ s - a < MaxSeq
  BY <1>1, <1>2, <1>3
<1>6. CASE ~AckValid(c, p.ack)
  <2>1. f.conn = c
    BY <1>6 DEF Fed
  <2> QED
    BY <2>1
<1>7. CASE AckValid(c, p.ack)
  <2>1. PICK x \in a .. s : x % MaxSeq = r % MaxSeq
    BY <1>3, <1>4, <1>5, <1>7, AckWindow
  <2>2. x \in Nat /\ r \in Nat /\ x - r < MaxSeq /\ r - x < MaxSeq
    BY <1>1, <1>2, <1>3, <1>4, <1>5, <2>1
  <2>3. x = r
    BY <1>1, <2>1, <2>2, ModEqual
  <2>4. a <= r /\ s - kept <= r
    BY <1>2, <1>3, <2>1, <2>3
  <2>5. f.conn.peerAck = r % MaxSeq
    BY <1>4, <1>7 DEF Fed
  <2>6. CASE f.conn.buffer = b
    <3>1. r \in s - kept .. d
      BY <1>2, <1>4, <2>4
    <3>2. Len(f.conn.buffer) = kept
      BY <2>6 DEF kept
    <3>3. \E m \in s - kept .. d : f.conn.peerAck = m % MaxSeq
      BY <2>5, <3>1
    <3> QED
      BY <1>2, <2>6, <3>2, <3>3 DEF Keeps
  <2>7. ASSUME NEW n \in 0 .. kept,
               \A i \in 1 .. n : IsSeqInBackroom(b[i].seq, p.ack),
               f.conn.buffer = SubSeq(b, n + 1, kept)
        PROVE  Keeps(f.conn, s, d)
    <3> DEFINE rest == SubSeq(b, n + 1, kept)
               last == s - kept + n
    <3>1. last \in Nat /\ last <= s /\ n \in Nat
      BY <1>2
    <3>2. /\ rest \in Seq(Chunk)
          /\ Len(rest) = kept - n
          /\ \A i \in 1 .. kept - n : rest[i] = b[n + i]
      <4>1. \A i \in n + 1 .. kept : b[i] \in Chunk
        BY <1>2, ElementOfSeq DEF kept
      <4>2. /\ rest \in Seq(Chunk)
            /\ Len(rest) = IF n + 1 <= kept THEN kept - (n + 1) + 1 ELSE 0
            /\ \A i \in 1 .. kept - (n + 1) + 1 : rest[i] = b[n + 1 + i - 1]
        BY <1>2, <3>1, <4>1, SubSeqProperties
      <4> HIDE DEF rest
      <4> QED
        BY <1>2, <4>2, SMTT(20)
    <3> HIDE DEF rest, last
    <3>3. last <= r
      <4>1. CASE n = 0
        BY <1>2, <2>4, <3>1, <4>1 DEF last
      <4>2. CASE n > 0
        <5>1. n \in 1 .. kept /\ n \in 1 .. n
          BY <4>2
        <5>2. b[n].seq = last % MaxSeq
          <6>1. b[n] = [vital |-> TRUE, seq |-> (s - kept + n) % MaxSeq, data |-> s - kept + n]
            BY <1>2, <5>1 DEF Consecutive, kept
          <6> QED
            BY <6>1 DEF last
        <5>3. last - r < MaxSeq \div 2 /\ r - last < MaxSeq \div 2
          BY <1>1, <1>2, <1>4, <2>4, <3>1 DEF last
        <5>4. IsSeqInBackroom(last % MaxSeq, r % MaxSeq)
          BY <1>4, <2>7, <5>1, <5>2
        <5> QED
          BY <3>1, <5>3, <5>4, Backroom
      <4> QED
        BY <4>1, <4>2
    <3>4. f.conn.buffer = rest
      BY <2>7 DEF rest
    <3>5. s - Len(rest) = last
      BY <1>2, <3>2 DEF last
    <3>6. r \in last .. d
      BY <3>1, <3>3
    <3>7. Consecutive(rest, last)
      <4>1. ASSUME NEW i \in 1 .. kept - n
            PROVE  rest[i] = [vital |-> TRUE, seq |-> (last + i) % MaxSeq, data |-> last + i]
        <5>1. n + i \in 1 .. kept /\ s - kept + (n + i) = last + i
          BY <1>2 DEF last
        <5>2. b[n + i] = [vital |-> TRUE, seq |-> (s - kept + (n + i)) % MaxSeq,
                          data |-> s - kept + (n + i)]
          BY <1>2, <5>1 DEF Consecutive, kept
        <5> QED
          BY <3>2, <5>1, <5>2
      <4> QED
        BY <3>2, <4>1 DEF Consecutive
    <3>8. Len(rest) <= BufCap /\ Len(rest) <= s
      <4>1. Len(rest) = kept - n
        BY <3>2
      <4>2. kept - n <= kept /\ kept - n \in Nat
        BY <1>2
      <4>3. BufCap \in Nat
        BY <1>1
      <4> QED
        BY <1>2, <4>1, <4>2, <4>3
    <3>9. Consecutive(rest, s - Len(rest))
      BY <3>5, <3>7
    <3>10. \E m \in s - Len(rest) .. d : f.conn.peerAck = m % MaxSeq
      BY <2>5, <3>5, <3>6
    <3> QED
      BY <3>4, <3>8, <3>9, <3>10 DEF Keeps
  <2> QED
    BY <1>7, <2>6, <2>7 DEF Fed, b, kept
<1> QED
  BY <1>6, <1>7

\* What a step of end x that unpacks the chunks q from y leaves of the invariant
\* for the chunks from y to x.
LEMMA Unpacking ==
    ASSUME TypeOK, Inductive, NEW x \in End, NEW y \in End, Peer(x) = y, x # y,
           NEW c \in Connection, NEW q \in Seq(Numbered(sent[y])),
           c.state = "OFFLINE" <=> conn[x].state = "OFFLINE",
           c.ack = conn[x].ack, c.unknownSeq = conn[x].unknownSeq,
           Intact(y) => Recent(q, Len(log[x])),
           conn' = [conn EXCEPT ![x] = UnpackNextChunk(c, q).conn],
           Deliver(x, UnpackNextChunk(c, q)),
           sent' = sent, unsaved' = unsaved, net' \in [End -> SUBSET Datagram],
           net'[x] \subseteq net[x],
           Acks(y) /\ conn[x].ack = Len(log[x]) % MaxSeq =>
               \A d \in net'[y] : d.rcvd <= Len(log[x]) /\ d.pkt.ack = d.rcvd % MaxSeq,
           conn[x].state = "OFFLINE" => net'[y] = net[y]
    PROVE  Labelled(y)' /\ (Intact(y)' => Sender(y)' /\ Receiver(x)' /\ Acks(y)')
<1> DEFINE u == UnpackNextChunk(c, q)
           G == Numbered(sent[y])
           got == Len(log[x])
<1>1. /\ c \in ConnectionsOf(Chunk) /\ Chunk \in SUBSET Chunk
      /\ sent[y] \in Nat /\ G \in SUBSET Chunk /\ q \in Seq(Chunk)
  <2>1. sent[y] \in Nat
    BY DEF TypeOK
  <2>2. G \in SUBSET Chunk
    BY <2>1, NumberedGrows
  <2>3. q \in Seq(Chunk)
    BY <2>2, SeqMonotone
  <2> QED
    BY <2>1, <2>2, <2>3, AllChunks
<1>2. u.conn.state = c.state /\ u.conn \in ConnectionsOf(Chunk) /\ Unpacked(c, q, u)
  BY <1>1, UnpackNextChunkContents
<1> HIDE DEF u, G
<1>3. PICK m \in 0 .. Len(q) :
          /\ u.got <=> m < Len(q)
          /\ u.rest = SubSeq(q, m + 2, Len(q))
  BY <1>2 DEF Unpacked
<1>4. u.rest \in Seq(G) /\ (Recent(q, got) => Recent(u.rest, got))
  BY <1>1, <1>3, RestContents DEF G
<1>5. /\ conn'[x] = u.conn /\ conn'[y] = conn[y] /\ Peer(y) = x
      /\ inbox'[x] = u.rest
      /\ conn[x].state = "OFFLINE" => log' = log
  BY Ends DEF TypeOK, Deliver, u
<1>6. Labelled(y)
  BY DEF Inductive
<1>7. Labelled(y)'
  BY <1>4, <1>5, <1>6 DEF Labelled, G
<1>8. ASSUME Intact(y)'
      PROVE  Sender(y)' /\ Receiver(x)' /\ Acks(y)'
  <2>1. Intact(y) /\ Recent(q, got)
    BY <1>8 DEF Intact
  <2>2. Sender(y) /\ Receiver(x) /\ Acks(y)
    BY <1>5, <2>1 DEF Inductive
  <2>3. got \in Nat /\ MaxSeq \in Nat \ {0}
    BY LenProperties, NetConnectionAssumption DEF TypeOK
  <2>4. CASE conn[x].state = "OFFLINE"
    <3>1. Sender(y)'
      BY <1>5, <2>2, <2>4 DEF Sender
    <3>2. Receiver(x)'
      BY <1>2, <1>4, <1>5, <2>1, <2>2, <2>4 DEF Receiver
    <3>3. Acks(y)'
      BY <1>5, <2>2, <2>4 DEF Acks
    <3> QED
      BY <3>1, <3>2, <3>3
  <2>5. CASE conn[x].state # "OFFLINE"
    <3> DEFINE now == Len(log'[x])
    <3>1. /\ c.ack = got % MaxSeq /\ ~c.unknownSeq
          /\ got <= sent[y] /\ sent[y] <= got + BufCap
          /\ \A i \in 1 .. got : log[x][i] = i
      BY <1>5, <2>2, <2>5 DEF Receiver
    <3>2. /\ got <= now
          /\ now <= sent[y]
          /\ \A i \in 1 .. now : log'[x][i] = i
          /\ u.conn.ack = now % MaxSeq
          /\ ~u.conn.unknownSeq
          /\ Recent(u.rest, now)
      BY <1>1, <2>1, <2>5, <3>1, DeliverStep DEF u
    <3> HIDE DEF got
    <3>3. now \in Nat
      <4>1. log' \in [End -> Seq(Nat)]
        BY <1>1, DeliverType
      <4> QED
        BY <4>1, LenProperties
    <3>4. BufCap \in Nat
      BY NetConnectionAssumption
    <3> HIDE DEF now
    <3>5. Sender(y)'
      <4>1. ASSUME conn[y].state # "OFFLINE"
            PROVE  \E p \in sent[y] - Len(conn[y].buffer) .. now : conn[y].peerAck = p % MaxSeq
        <5>1. PICK p \in sent[y] - Len(conn[y].buffer) .. got : conn[y].peerAck = p % MaxSeq
          BY <1>5, <2>2, <4>1 DEF Sender, got
        <5>2. Len(conn[y].buffer) \in Nat
          BY Fields, LenProperties DEF TypeOK
        <5>3. p \in sent[y] - Len(conn[y].buffer) .. now
          BY <1>1, <2>3, <3>2, <3>3, <5>1, <5>2
        <5> QED
          BY <5>1, <5>3
      <4> QED
        BY <1>5, <2>2, <4>1 DEF Sender, now
    <3>6. Receiver(x)'
      <4>1. sent[y] <= now + BufCap
        BY <1>1, <2>3, <3>1, <3>2, <3>3, <3>4
      <4> QED
        BY <1>5, <3>2, <4>1 DEF Receiver, now
    <3>7. Acks(y)'
      <4>1. \A d \in net'[y] : d.rcvd <= got /\ d.pkt.ack = d.rcvd % MaxSeq
        BY <2>2, <3>1 DEF got
      <4>2. \A d \in net'[y] : d.rcvd \in Nat
        BY DEF Datagram
      <4> QED
        BY <1>5, <2>3, <3>2, <3>3, <4>1, <4>2 DEF Acks, now
    <3> QED
      BY <3>5, <3>6, <3>7
  <2> QED
    BY <2>4, <2>5
<1> QED
  BY <1>7, <1>8

\* Recv on a datagram: the ack it carries releases chunks, the chunks it carries
\* are delivered if they come next.
LEMMA ReceiveStep ==
    ASSUME TypeOK, Inductive, NEW x \in End, NEW d \in net[x], Receive(x, d)
    PROVE  Inductive'
<1> DEFINE y == Peer(x)
           c == conn[x]
           G == Numbered(sent[x])
           H == Numbered(sent[y])
           f == Feed(c, d.pkt)
           q == IF f.ok THEN d.pkt.chunks ELSE <<>>
           u == UnpackNextChunk(f.conn, q)
<1>1. y \in End /\ y # x /\ Peer(y) = x
  BY Ends
<1>2. /\ conn' = [conn EXCEPT ![x] = u.conn]
      /\ Deliver(x, u)
      /\ Transmit(x, f.out)
      /\ sent' = sent /\ unsaved' = unsaved
      /\ Alive(c) /\ Fresh(x, d)
  BY DEF Receive
<1>3. /\ sent[x] \in Nat /\ sent[y] \in Nat
      /\ G \in SUBSET Chunk /\ H \in SUBSET Chunk
      /\ c \in Connection
      /\ d.pkt \in Packet /\ d.rcvd \in Nat
  <2>1. sent[x] \in Nat /\ sent[y] \in Nat /\ c \in Connection /\ d \in Datagram
    BY <1>1 DEF TypeOK
  <2> QED
    BY <2>1, NumberedGrows DEF Datagram
<1>4. Labelled(x) /\ Labelled(y)
  BY <1>1 DEF Inductive
<1>5. c.state = "ONLINE" /\ c.sequence = sent[x] % MaxSeq
  BY <1>2, <1>4 DEF Labelled, Alive
<1>6. c \in ConnectionsOf(G) /\ \A g \in net[y] : g.pkt.chunks \in Seq(G)
  BY <1>3, <1>4 DEF Labelled, ConnectionsOf
<1> HIDE DEF G
<1>7. /\ f.out \subseteq PacketsOf(G, c.ack)
      /\ f.conn \in ConnectionsOf(G)
      /\ f.conn.state \in {"ONLINE", "ERROR"}
      /\ f.conn.sequence = c.sequence
      /\ f.conn.ack = c.ack
      /\ f.conn.unknownSeq = c.unknownSeq
      /\ Fed(c, d.pkt, f)
  BY <1>3, <1>5, <1>6, FeedContents
<1>8. d.pkt.chunks \in Seq(H) /\ q \in Seq(H)
  <2>1. d.pkt.chunks \in Seq(H)
    BY <1>1, <1>4 DEF Labelled
  <2> QED
    BY <2>1, EmptySeq
<1>9. q \in Seq(Chunk)
  BY <1>3, <1>8, SeqMonotone
<1> HIDE DEF f, c, q, H
<1>10. /\ u.conn \in ConnectionsOf(G)
       /\ u.conn.state = f.conn.state
       /\ u.conn.sequence = f.conn.sequence
       /\ u.conn.peerAck = f.conn.peerAck
       /\ u.conn.buffer = f.conn.buffer
  BY <1>3, <1>7, <1>9, UnpackNextChunkContents
<1>11. /\ net'[x] = net[x]
       /\ \A g \in net'[y] : g.pkt.chunks \in Seq(G)
       /\ Acks(y) /\ c.ack = Len(log[x]) % MaxSeq =>
            \A g \in net'[y] : g.rcvd <= Len(log[x]) /\ g.pkt.ack = g.rcvd % MaxSeq
  BY <1>2, <1>3, <1>6, <1>7, TransmitContents DEF c
<1>12. net' \in [End -> SUBSET Datagram]
  <2>1. f.out \in SUBSET Packet
    BY <1>7 DEF PacketsOf
  <2> QED
    BY <1>2, <2>1, TransmitType
<1>13. Labelled(y)' /\ (Intact(y)' => Sender(y)' /\ Receiver(x)' /\ Acks(y)')
  <2>1. ASSUME Intact(y)
        PROVE  Recent(q, Len(log[x]))
    <3>1. Len(log[x]) <= sent[y]
      BY <1>1, <2>1 DEF Inductive, Receiver
    <3>2. ASSUME NEW i \in 1 .. Len(q), q[i].vital
          PROVE  q[i].data \in Nat /\ q[i].data <= sent[y] /\ sent[y] <= q[i].data + Lag
      <4>1. q = d.pkt.chunks
        BY <3>2, EmptySeq DEF q
      <4>2. q[i] \in H
        BY <1>8, ElementOfSeq
      <4> QED
        BY <1>2, <1>3, <3>2, <4>1, <4>2 DEF Fresh, H, Numbered
    <3>3. Len(log[x]) \in Nat /\ Lag \in Nat
      BY LenProperties, NetLinkAssumption DEF TypeOK
    <3> QED
      BY <1>3, <3>1, <3>2, <3>3 DEF Recent
  <2>2. f.conn \in Connection
    BY <1>7 DEF ConnectionsOf
  <2>3. f.conn.state # "OFFLINE" /\ conn[x].state # "OFFLINE"
    BY <1>5, <1>7 DEF c
  <2> QED
    BY <1>1, <1>2, <1>7, <1>8, <1>11, <1>12, <2>1, <2>2, <2>3, Unpacking DEF c, H
<1>14. ASSUME Intact(x)
       PROVE  Sender(x)'
  <2>1. Sender(x) /\ Receiver(y) /\ Acks(x)
    BY <1>14 DEF Inductive
  <2> DEFINE got == Len(log[y])
  <2>2. c.buffer \in Seq(Chunk) /\ Keeps(c, sent[x], got)
    BY <1>3, <1>5, <2>1, Fields DEF Sender, Keeps, c
  <2>3. got <= sent[x] /\ sent[x] <= got + BufCap
    BY <1>1, <2>1 DEF Receiver
  <2>4. d.rcvd <= got /\ got <= d.rcvd + Lag /\ d.pkt.ack = d.rcvd % MaxSeq
    BY <1>2, <2>1 DEF Acks, Fresh
  <2>5. got \in Nat
    BY <1>1, LenProperties DEF TypeOK
  <2> HIDE DEF got
  <2>6. \E r \in 0 .. got : got <= r + Lag /\ d.pkt.ack = r % MaxSeq
    BY <1>3, <2>4, <2>5
  <2>7. Keeps(f.conn, sent[x], got)
    BY <1>3, <1>5, <1>7, <2>2, <2>3, <2>5, <2>6, Released
  <2>8. conn'[x] = u.conn /\ log'[y] = log[y]
    BY <1>1, <1>2 DEF TypeOK, Deliver
  <2> HIDE DEF u
  <2> QED
    BY <1>2, <1>10, <2>7, <2>8 DEF Sender, Keeps, got
<1>15. Labelled(x)' /\ (Intact(x)' => Sender(x)' /\ Receiver(y)' /\ Acks(x)')
  <2>1. inbox'[y] = inbox[y] /\ log'[y] = log[y]
    BY <1>1, <1>2 DEF TypeOK, Deliver
  <2>2. u.conn.state \in {"ONLINE", "ERROR"} /\ u.conn.sequence = c.sequence
    BY <1>7, <1>10
  <2>3. c.state # "OFFLINE"
    BY <1>5
  <2> HIDE DEF u
  <2> QED
    BY <1>1, <1>2, <1>10, <1>11, <1>14, <2>1, <2>2, <2>3, Outgoing DEF c, G
<1> QED
  BY <1>13, <1>15, BothWays

\* Recv with chunks still to unpack; after a Disconnect they are dropped.
LEMMA ReceiveNextStep ==
    ASSUME TypeOK, Inductive, NEW x \in End, ReceiveNext(x)
    PROVE  Inductive'
<1> DEFINE y == Peer(x)
           c == conn[x]
           q == inbox[x]
           G == Numbered(sent[x])
           u == UnpackNextChunk(c, q)
<1>1. y \in End /\ y # x /\ Peer(y) = x
  BY Ends
<1>2. /\ conn' = [conn EXCEPT ![x] = u.conn]
      /\ Deliver(x, u)
      /\ net' = net /\ sent' = sent /\ unsaved' = unsaved
  BY DEF ReceiveNext
<1>3. /\ c \in ConnectionsOf(G) /\ G \in SUBSET Chunk
      /\ \A d \in net[y] : d.pkt.chunks \in Seq(G)
      /\ c \in Connection /\ q \in Seq(Chunk)
  BY OldChunks DEF TypeOK
<1>4. Labelled(x) /\ Labelled(y)
  BY <1>1 DEF Inductive
<1>5. q \in Seq(Numbered(sent[y]))
  BY <1>1, <1>4 DEF Labelled
<1> HIDE DEF c, q, G
<1>6. /\ u.conn \in ConnectionsOf(G)
      /\ u.conn.state = c.state
      /\ u.conn.sequence = c.sequence
      /\ u.conn.peerAck = c.peerAck
      /\ u.conn.buffer = c.buffer
  BY <1>3, UnpackNextChunkContents
<1>7. Labelled(y)' /\ (Intact(y)' => Sender(y)' /\ Receiver(x)' /\ Acks(y)')
  <2>1. Intact(y) => Recent(q, Len(log[x]))
    BY <1>1 DEF Inductive, Receiver, q
  <2>2. net' \in [End -> SUBSET Datagram]
    BY <1>2 DEF TypeOK
  <2>3. Acks(y) => \A d \in net'[y] : d.rcvd <= Len(log[x]) /\ d.pkt.ack = d.rcvd % MaxSeq
    BY <1>1, <1>2 DEF Acks
  <2> QED
    BY <1>1, <1>2, <1>3, <1>5, <2>1, <2>2, <2>3, Unpacking DEF c
<1>8. conn'[x] = u.conn /\ log'[y] = log[y] /\ inbox'[y] = inbox[y]
  BY <1>1, <1>2 DEF TypeOK, Deliver
<1>9. ASSUME Intact(x)
      PROVE  Sender(x)'
  <2>1. Sender(x)
    BY <1>9 DEF Inductive
  <2> HIDE DEF u
  <2> QED
    BY <1>2, <1>6, <1>8, <2>1 DEF Sender, c
<1>10. c.state \in {"OFFLINE", "ONLINE", "ERROR"}
  BY <1>4 DEF Labelled, c
<1> HIDE DEF u
<1>11. Labelled(x)' /\ (Intact(x)' => Sender(x)' /\ Receiver(y)' /\ Acks(x)')
  BY <1>1, <1>2, <1>3, <1>6, <1>8, <1>9, <1>10, Outgoing DEF c, G
<1> QED
  BY <1>7, <1>11, BothWays

\* A step that takes nothing in and queues nothing new.
LEMMA QuietStep ==
    ASSUME TypeOK, Inductive, NEW x \in End,
           NEW c \in ConnectionsOf(Numbered(sent[x])), NEW out,
           conn[x].state # "OFFLINE",
           conn' = [conn EXCEPT ![x] = c],
           inbox' = inbox, sent' = sent, unsaved' = unsaved, log' = log,
           out \subseteq PacketsOf(Numbered(sent[x]), conn[x].ack), Transmit(x, out),
           c.state \in {"OFFLINE", "ONLINE", "ERROR"},
           c.state # "OFFLINE" =>
               /\ c.sequence = conn[x].sequence /\ c.buffer = conn[x].buffer
               /\ c.ack = conn[x].ack /\ c.peerAck = conn[x].peerAck
               /\ c.unknownSeq = conn[x].unknownSeq
    PROVE  Inductive'
<1> DEFINE y == Peer(x)
           G == Numbered(sent[x])
<1>1. y \in End /\ y # x /\ Peer(y) = x
  BY Ends
<1>2. /\ G \in SUBSET Chunk /\ conn[x] \in ConnectionsOf(G)
      /\ \A d \in net[y] : d.pkt.chunks \in Seq(G)
  BY OldChunks DEF TypeOK
<1>3. conn'[x] = c
  BY DEF TypeOK
<1> HIDE DEF G
<1>4. /\ net'[x] = net[x]
      /\ \A d \in net'[y] : d.pkt.chunks \in Seq(G)
      /\ Acks(y) /\ conn[x].ack = Len(log[x]) % MaxSeq =>
           \A d \in net'[y] : d.rcvd <= Len(log[x]) /\ d.pkt.ack = d.rcvd % MaxSeq
  BY <1>2, TransmitContents DEF G
<1>5. Intact(x) => Sender(x)'
  BY <1>3 DEF Inductive, Sender
<1>6. Labelled(x)' /\ (Intact(x)' => Sender(x)' /\ Receiver(y)' /\ Acks(x)')
  BY <1>1, <1>4, <1>5, Outgoing DEF G
<1>7. c \in Connection
  BY DEF ConnectionsOf
<1>8. Labelled(y)' /\ (Intact(y)' => Sender(y)' /\ Receiver(x)' /\ Acks(y)')
  BY <1>1, <1>4, <1>7, Incoming
<1> QED
  BY <1>6, <1>8, BothWays

LEMMA ResetContents ==
    ASSUME NEW G
    PROVE  ResetConnection \in ConnectionsOf(G) /\ ResetConnection.state = "OFFLINE"
BY ResetType, EmptySeq DEF ConnectionsOf, ResetConnection, EmptyConstruct

LEMMA CloseStep ==
    ASSUME TypeOK, Inductive, NEW x \in End, Close(x)
    PROVE  Inductive'
<1> DEFINE G == Numbered(sent[x])
           d == Disconnect(conn[x])
<1>1. G \in SUBSET Chunk /\ conn[x] \in Connection
  BY NumberedGrows DEF TypeOK
<1>2. d.conn = ResetConnection /\ d.out \subseteq PacketsOf(G, conn[x].ack)
  BY <1>1, DisconnectContents
<1>3. /\ conn[x].state # "OFFLINE"
      /\ conn' = [conn EXCEPT ![x] = d.conn]
      /\ Transmit(x, d.out)
      /\ inbox' = inbox /\ sent' = sent /\ unsaved' = unsaved /\ log' = log
  BY DEF Close
<1> HIDE DEF d
<1> QED
  BY <1>2, <1>3, ResetContents, QuietStep

LEMMA UpdateStep ==
    ASSUME TypeOK, Inductive, NEW x \in End, NEW t \in Clock, UpdateConnection(x, t)
    PROVE  Inductive'
<1> DEFINE G == Numbered(sent[x])
           c == conn[x]
           u == Update(c, t)
           d == IF u.conn.state = "ERROR"
                THEN Disconnect(u.conn)
                ELSE [conn |-> u.conn, out |-> {}]
<1>1. G \in SUBSET Chunk /\ c \in ConnectionsOf(G)
  BY OldChunks DEF TypeOK
<1>2. Labelled(x)
  BY DEF Inductive
<1>3. /\ c.state # "OFFLINE"
      /\ conn' = [conn EXCEPT ![x] = d.conn]
      /\ Transmit(x, u.out \cup d.out)
      /\ inbox' = inbox /\ sent' = sent /\ unsaved' = unsaved /\ log' = log
  BY DEF UpdateConnection
<1>4. c.state \in {"ONLINE", "ERROR"}
  BY <1>2, <1>3 DEF Labelled
<1> HIDE DEF G, c
<1>5. /\ u.conn \in ConnectionsOf(G)
      /\ u.out \subseteq PacketsOf(G, c.ack)
      /\ u.conn.state \in {c.state, "ERROR"}
      /\ u.conn.sequence = c.sequence
      /\ u.conn.ack = c.ack
      /\ u.conn.peerAck = c.peerAck
      /\ u.conn.unknownSeq = c.unknownSeq
      /\ u.conn.buffer = c.buffer
  BY <1>1, UpdateContents
<1> HIDE DEF u
<1>6. CASE u.conn.state = "ERROR"
  <2>1. u.conn \in Connection
    BY <1>5 DEF ConnectionsOf
  <2>2. d.conn = ResetConnection /\ d.out \subseteq PacketsOf(G, c.ack)
    BY <1>1, <1>5, <1>6, <2>1, DisconnectContents
  <2> HIDE DEF d
  <2>3. u.out \cup d.out \subseteq PacketsOf(G, c.ack)
    BY <1>5, <2>2
  <2> QED
    BY <1>3, <2>2, <2>3, ResetContents, QuietStep DEF c, G
<1>7. CASE u.conn.state # "ERROR"
  <2>1. d.conn = u.conn /\ d.out = {}
    BY <1>7
  <2> HIDE DEF d
  <2>2. u.out \cup d.out \subseteq PacketsOf(G, c.ack)
    BY <1>5, <2>1
  <2> QED
    BY <1>3, <1>4, <1>5, <2>1, <2>2, QuietStep DEF c, G
<1> QED
  BY <1>6, <1>7

LEMMA LoseStep ==
    ASSUME TypeOK, Inductive, NEW x \in End, NEW d \in net[x], Lose(x, d)
    PROVE  Inductive'
<1>1. \A e \in End : net'[e] \subseteq net[e]
  BY DEF Lose, TypeOK
<1>2. conn' = conn /\ inbox' = inbox /\ sent' = sent /\ unsaved' = unsaved /\ log' = log
  BY DEF Lose
<1>3. ASSUME NEW e \in End
      PROVE  Labelled(e)' /\ (Intact(e)' => Sender(e)' /\ Receiver(Peer(e))' /\ Acks(e)')
  <2>1. Peer(e) \in End
    BY PeerType
  <2>2. Labelled(e) /\ (Intact(e) => Sender(e) /\ Receiver(Peer(e)) /\ Acks(e))
    BY DEF Inductive
  <2>3. Labelled(e)'
    BY <1>1, <1>2, <2>1, <2>2 DEF Labelled
  <2>4. ASSUME Intact(e)'
        PROVE  Sender(e)' /\ Receiver(Peer(e))' /\ Acks(e)'
    <3>1. Intact(e)
      BY <1>2, <2>4 DEF Intact
    <3>2. Sender(e)'
      BY <1>2, <2>2, <3>1 DEF Sender
    <3>3. Receiver(Peer(e))'
      BY <1>2, <2>2, <3>1 DEF Receiver
    <3>4. Acks(e)'
      BY <1>1, <1>2, <2>2, <3>1 DEF Acks
    <3> QED
      BY <3>2, <3>3, <3>4
  <2> QED
    BY <2>3, <2>4
<1> QED
  BY <1>3 DEF Inductive

LEMMA Init_Inductive == Init => Inductive
<1> SUFFICES ASSUME Init
             PROVE  Inductive
  OBVIOUS
<1>1. TypeOK
  BY TypeInit
<1>2. ASSUME NEW e \in End
      PROVE  Labelled(e) /\ Sender(e) /\ Receiver(Peer(e)) /\ Acks(e)
  <2> DEFINE f == Peer(e)
  <2>1. f \in End /\ Peer(f) = e
    BY Ends
  <2>2. /\ MaxSeq \in Nat \ {0} /\ BufCap \in Nat
        /\ 0 % MaxSeq = 0
    BY NetConnectionAssumption, ModUnique
  <2>3. <<>> \in Seq(Numbered(0)) /\ Len(<<>>) = 0
    BY EmptySeq
  <2>4. /\ conn[e] = DirectInit(FALSE) /\ conn[f] = DirectInit(FALSE)
        /\ inbox[e] = <<>> /\ inbox[f] = <<>> /\ net[e] = {} /\ net[f] = {}
        /\ sent[e] = 0 /\ sent[f] = 0 /\ log[e] = <<>> /\ log[f] = <<>>
    BY <2>1 DEF Init
  <2>5. /\ conn[e].state = "ONLINE" /\ conn[f].state = "ONLINE"
        /\ conn[e].sequence = 0 /\ conn[e].peerAck = 0
        /\ conn[e].buffer = <<>> /\ conn[e].construct.chunks = <<>>
        /\ conn[f].ack = 0 /\ ~conn[f].unknownSeq
    BY <2>4 DEF DirectInit, ResetConnection, EmptyConstruct
  <2>6. Labelled(e)
    BY <2>2, <2>3, <2>4, <2>5 DEF Labelled
  <2>7. Sender(e)
    <3>1. Len(conn[e].buffer) = 0 /\ Len(log[Peer(e)]) = 0 /\ sent[e] = 0
      BY <2>3, <2>4, <2>5
    <3>2. Consecutive(conn[e].buffer, 0 - 0)
      BY <3>1 DEF Consecutive
    <3>3. \E p \in 0 - 0 .. 0 : conn[e].peerAck = p % MaxSeq
      BY <2>2, <2>5
    <3>4. 0 <= BufCap
      BY <2>2
    <3> QED
      BY <3>1, <3>2, <3>3, <3>4 DEF Sender
  <2>8. Receiver(f)
    <3>1. Len(log[f]) = 0 /\ sent[Peer(f)] = 0 /\ Len(inbox[f]) = 0
      BY <2>1, <2>3, <2>4
    <3>2. Recent(inbox[f], 0)
      BY <3>1 DEF Recent
    <3>3. conn[f].ack = 0 % MaxSeq /\ 0 <= 0 + BufCap
      BY <2>2, <2>5
    <3> HIDE DEF f
    <3> QED
      BY <2>5, <3>1, <3>2, <3>3 DEF Receiver
  <2>9. Acks(e)
    BY <2>4 DEF Acks
  <2> QED
    BY <2>6, <2>7, <2>8, <2>9
<1> QED
  BY <1>2 DEF Inductive

LEMMA InductiveStep == TypeOK /\ Inductive /\ [Next]_vars => Inductive'
<1> SUFFICES ASSUME TypeOK, Inductive, [Next]_vars
             PROVE  Inductive'
  OBVIOUS
<1>1. ASSUME NEW e \in End, NEW vital \in BOOLEAN, NEW flush \in BOOLEAN, Send(e, vital, flush)
      PROVE  Inductive'
  BY <1>1, SendStep
<1>2. ASSUME NEW e \in End, NEW d \in net[e], Receive(e, d)
      PROVE  Inductive'
  BY <1>2, ReceiveStep
<1>3. ASSUME NEW e \in End, NEW d \in net[e], Lose(e, d)
      PROVE  Inductive'
  BY <1>3, LoseStep
<1>4. ASSUME NEW e \in End, ReceiveNext(e)
      PROVE  Inductive'
  BY <1>4, ReceiveNextStep
<1>5. ASSUME NEW e \in End, NEW t \in Clock, UpdateConnection(e, t)
      PROVE  Inductive'
  BY <1>5, UpdateStep
<1>6. ASSUME NEW e \in End, Close(e)
      PROVE  Inductive'
  BY <1>6, CloseStep
<1>7. CASE UNCHANGED vars
  BY <1>7 DEF vars, Inductive, Labelled, Intact, Sender, Receiver, Acks
<1> QED
  BY <1>1, <1>2, <1>3, <1>4, <1>5, <1>6, <1>7 DEF Next

\* The inductive invariant holds in every reachable state: the chunks an end
\* has sent, the copies it keeps, the packets in flight, what is still to be
\* unpacked and what has been delivered agree on the number behind every
\* sequence number and ack (QueueChunk, Feed, AckChunks, UnpackNextChunk).
THEOREM InductiveHolds == Spec => [](TypeOK /\ Inductive)
<1> QED
  BY TypeInit, TypeStep, Init_Inductive, InductiveStep, PTL DEF Spec

-----------------------------------------------------------------------------
(* What it implies *)

LEMMA ImpliesInOrder == Inductive => InOrder
BY Ends DEF Inductive, Receiver, InOrder

LEMMA ImpliesNothingForgotten == TypeOK /\ Inductive => NothingForgotten
<1> SUFFICES ASSUME TypeOK, Inductive, NEW e \in End, conn[e].state # "OFFLINE", Intact(e),
                    NEW n \in Len(log[Peer(e)]) + 1 .. sent[e]
             PROVE  \E i \in 1 .. Len(conn[e].buffer) : conn[e].buffer[i].data = n
  BY DEF NothingForgotten
<1> DEFINE b == conn[e].buffer
           kept == Len(b)
           got == Len(log[Peer(e)])
<1>1. /\ got \in Nat /\ kept \in Nat /\ sent[e] \in Nat
  BY PeerType, Fields, LenProperties DEF TypeOK
<1>2. Sender(e)
  BY DEF Inductive
<1>3. /\ kept <= sent[e] /\ Consecutive(b, sent[e] - kept)
      /\ \E p \in sent[e] - kept .. got : conn[e].peerAck = p % MaxSeq
  BY <1>2 DEF Sender
<1>4. sent[e] - kept <= got
  BY <1>1, <1>3
<1> DEFINE i == n - (sent[e] - kept)
<1>5. i \in 1 .. kept /\ sent[e] - kept + i = n
  <2> HIDE DEF kept, got
  <2> QED
    BY <1>1, <1>4 DEF got
<1> HIDE DEF i
<1>6. b[i] = [vital |-> TRUE, seq |-> (sent[e] - kept + i) % MaxSeq, data |-> sent[e] - kept + i]
  BY <1>3, <1>5 DEF Consecutive
<1>7. b[i].data = n
  BY <1>5, <1>6
<1> QED
  BY <1>5, <1>7

LEMMA ImpliesNeverLockedOut == TypeOK /\ Inductive => NeverLockedOut
<1> SUFFICES ASSUME TypeOK, Inductive, NEW e \in End, conn[e].state # "OFFLINE",
                    conn[Peer(e)].state # "OFFLINE", Intact(e)
             PROVE  AckValid(conn[e], conn[Peer(e)].ack)
  BY DEF NeverLockedOut
<1> DEFINE f == Peer(e)
           kept == Len(conn[e].buffer)
           got == Len(log[f])
           s == sent[e]
<1>1. f \in End /\ Peer(f) = e
  BY Ends
<1>2. got \in Nat /\ kept \in Nat /\ s \in Nat
  BY <1>1, Fields, LenProperties DEF TypeOK
<1>3. Labelled(e) /\ Sender(e) /\ Receiver(f)
  BY DEF Inductive
<1>4. /\ kept <= BufCap /\ kept <= s /\ conn[e].sequence = s % MaxSeq
      /\ \E p \in s - kept .. got : conn[e].peerAck = p % MaxSeq
  BY <1>3 DEF Labelled, Sender
<1>5. got <= s /\ conn[f].ack = got % MaxSeq
  BY <1>1, <1>3 DEF Receiver
<1>6. BufCap \in Nat /\ BufCap < MaxSeq /\ MaxSeq \in Nat
  BY NetConnectionAssumption
<1>7. PICK p \in s - kept .. got : conn[e].peerAck = p % MaxSeq
  BY <1>4
<1> HIDE DEF kept, got, s, f
<1>8. p \in Nat /\ p <= s /\ s - p < MaxSeq /\ got \in p .. s
  BY <1>2, <1>4, <1>5, <1>6, <1>7
<1>9. AckValid(conn[e], got % MaxSeq)
  BY <1>2, <1>4, <1>7, <1>8, AckWindow
<1> QED
  BY <1>5, <1>9 DEF f

\* Vital chunks are delivered exactly once and in order, whatever the network
\* loses, duplicates or reorders (UnpackNextChunk, Feed, Resend).
THEOREM OrderKept == Spec => []InOrder
<1> QED
  BY InductiveHolds, ImpliesInOrder, PTL

\* No chunk leaves the resend buffer before the peer has delivered it
\* (AckChunks, IsSeqInBackroom).
THEOREM NothingLost == Spec => []NothingForgotten
<1> QED
  BY InductiveHolds, ImpliesNothingForgotten, PTL

\* The ack window at the head of Feed never refuses the peer's present ack.
THEOREM WindowOpen == Spec => []NeverLockedOut
<1> QED
  BY InductiveHolds, ImpliesNeverLockedOut, PTL

-----------------------------------------------------------------------------
(* The session implements two reliable channels *)

\* What is handed over is the next chunk of the abstract channel.
LEMMA HandStep ==
    ASSUME TypeOK, Inductive, Inductive', NEW x \in End, NEW c \in Connection,
           NEW q \in Seq(Numbered(sent[Peer(x)])),
           Deliver(x, UnpackNextChunk(c, q)),
           sent' = sent, unsaved' = unsaved
    PROVE  Reliable!Hand(x, Peer(x)) \/ log' = log
<1> DEFINE y == Peer(x)
           G == Numbered(sent[y])
           u == UnpackNextChunk(c, q)
           n == u.chunk.data
<1>1. y \in End /\ Peer(y) = x
  BY Ends
<1>2. /\ c \in ConnectionsOf(Chunk) /\ Chunk \in SUBSET Chunk
      /\ G \in SUBSET Chunk /\ sent[y] \in Nat
  BY <1>1, AllChunks, NumberedGrows DEF TypeOK
<1>3. q \in Seq(Chunk) /\ Len(q) \in Nat
  BY <1>2, SeqMonotone, LenProperties
<1>4. u.chunk \in Chunk /\ Unpacked(c, q, u)
  BY <1>2, <1>3, UnpackNextChunkContents
<1>5. log' = IF u.got /\ u.chunk.vital /\ conn[x].state # "OFFLINE"
             THEN [log EXCEPT ![x] = Append(@, n)]
             ELSE log
  BY DEF Deliver
<1> HIDE DEF u
<1>6. CASE u.got /\ u.chunk.vital /\ conn[x].state # "OFFLINE"
  <2>1. u.chunk \in G
    <3>1. PICK m \in 0 .. Len(q) : m < Len(q) /\ u.chunk = q[m + 1]
      BY <1>4, <1>6 DEF Unpacked
    <3>2. m + 1 \in 1 .. Len(q)
      BY <1>3, <3>1
    <3> HIDE DEF G
    <3> QED
      BY <3>1, <3>2, ElementOfSeq DEF G
  <2>2. n \in 1 .. sent[y]
    BY <1>6, <2>1 DEF Numbered
  <2>3. log[x] \in Seq(Nat) /\ n \in Nat
    BY <1>4 DEF TypeOK, Chunk
  <2> HIDE DEF n
  <2>4. log' = [log EXCEPT ![x] = Append(@, n)] /\ log'[x] = Append(log[x], n)
    BY <1>5, <1>6 DEF TypeOK
  <2>5. Len(log'[x]) = Len(log[x]) + 1 /\ log'[x][Len(log[x]) + 1] = n /\ Len(log[x]) \in Nat
    BY <2>3, <2>4, AppendProperties, LenProperties
  <2>6. unsaved[y] = {} => n = Len(log[x]) + 1
    <3> SUFFICES ASSUME unsaved[y] = {}
                 PROVE  n = Len(log[x]) + 1
      OBVIOUS
    <3>1. Intact(y)'
      BY DEF Intact
    <3>2. \A i \in 1 .. Len(log'[x]) : log'[x][i] = i
      BY <1>1, <3>1 DEF Inductive, Receiver
    <3> QED
      BY <2>5, <3>2
  <2> QED
    BY <2>2, <2>4, <2>6 DEF Reliable!Hand
<1>7. CASE ~(u.got /\ u.chunk.vital /\ conn[x].state # "OFFLINE")
  BY <1>5, <1>7
<1> QED
  BY <1>6, <1>7

\* Every step of the session is a step of the channels or leaves them alone.
LEMMA RefinementStep ==
    TypeOK /\ Inductive /\ [Next]_vars => [Reliable!Next]_<<sent, unsaved, log>>
<1> SUFFICES ASSUME TypeOK, Inductive, [Next]_vars
             PROVE  Reliable!Next \/ UNCHANGED <<sent, unsaved, log>>
  OBVIOUS
<1>1. ASSUME NEW e \in End, NEW vital \in BOOLEAN, NEW flush \in BOOLEAN, Send(e, vital, flush)
      PROVE  Reliable!Next \/ UNCHANGED <<sent, unsaved, log>>
  <2> DEFINE n == sent[e] + 1
             q == QueueChunk(conn[e], vital, IF vital THEN n ELSE 0)
  <2>1. /\ sent' = [sent EXCEPT ![e] = IF vital THEN n ELSE @]
        /\ unsaved' = [unsaved EXCEPT ![e] = IF vital /\ ~q.saved THEN @ \cup {n} ELSE @]
        /\ log' = log
    BY <1>1 DEF Send
  <2>2. q.saved \in BOOLEAN
    <3>1. conn[e] \in Connection /\ (IF vital THEN n ELSE 0) \in Nat
      BY DEF TypeOK
    <3> QED
      BY <3>1, QueueChunkType
  <2> HIDE DEF q
  <2>3. CASE vital
    <3>1. Reliable!Submit(e, q.saved)
      BY <2>1, <2>3 DEF Reliable!Submit
    <3> QED
      BY <2>2, <3>1 DEF Reliable!Next
  <2>4. CASE ~vital
    BY <2>1, <2>4 DEF TypeOK
  <2> QED
    BY <2>3, <2>4
<1>2. ASSUME NEW e \in End, Reliable!Hand(e, Peer(e)) \/ log' = log,
             sent' = sent, unsaved' = unsaved
      PROVE  Reliable!Next \/ UNCHANGED <<sent, unsaved, log>>
  BY <1>2, Ends DEF Reliable!Next
<1>3. ASSUME NEW e \in End
      PROVE  /\ Peer(e) \in End /\ sent[Peer(e)] \in Nat
             /\ inbox[e] \in Seq(Numbered(sent[Peer(e)]))
             /\ \A d \in net[e] : d.pkt \in Packet /\ d.pkt.chunks \in Seq(Numbered(sent[Peer(e)]))
  <2>1. Peer(e) \in End /\ Peer(Peer(e)) = e
    BY Ends
  <2>2. Labelled(Peer(e))
    BY <2>1 DEF Inductive
  <2> QED
    BY <2>1, <2>2 DEF Labelled, TypeOK, Datagram
<1>4. ASSUME NEW e \in End, NEW d \in net[e], Receive(e, d)
      PROVE  Reliable!Next \/ UNCHANGED <<sent, unsaved, log>>
  <2> DEFINE f == Feed(conn[e], d.pkt)
             q == IF f.ok THEN d.pkt.chunks ELSE <<>>
  <2>1. /\ Deliver(e, UnpackNextChunk(f.conn, q))
        /\ sent' = sent /\ unsaved' = unsaved
    BY <1>4 DEF Receive
  <2>2. f.conn \in Connection
    BY <1>3, FeedType DEF TypeOK
  <2>3. q \in Seq(Numbered(sent[Peer(e)]))
    BY <1>3, EmptySeq
  <2>4. Inductive'
    BY <1>4, ReceiveStep
  <2> HIDE DEF f, q
  <2> QED
    BY <1>2, <2>1, <2>2, <2>3, <2>4, HandStep
<1>5. ASSUME NEW e \in End, ReceiveNext(e)
      PROVE  Reliable!Next \/ UNCHANGED <<sent, unsaved, log>>
  <2>1. /\ Deliver(e, UnpackNextChunk(conn[e], inbox[e]))
        /\ sent' = sent /\ unsaved' = unsaved
    BY <1>5 DEF ReceiveNext
  <2>2. conn[e] \in Connection
    BY DEF TypeOK
  <2>3. Inductive'
    BY <1>5, ReceiveNextStep
  <2> QED
    BY <1>2, <1>3, <2>1, <2>2, <2>3, HandStep
<1>6. ASSUME NEW e \in End,
             (\E d \in net[e] : Lose(e, d)) \/ (\E t \in Clock : UpdateConnection(e, t)) \/ Close(e)
      PROVE  UNCHANGED <<sent, unsaved, log>>
  BY <1>6 DEF Lose, UpdateConnection, Close
<1>7. CASE UNCHANGED vars
  BY <1>7 DEF vars
<1> QED
  BY <1>1, <1>4, <1>5, <1>6, <1>7 DEF Next

\* The session implements two reliable FIFO channels: what an end is handed is
\* the next chunk its peer has submitted, as long as the resend buffer never
\* refused one, and otherwise at least one that was submitted.
THEOREM Implements == Spec => ImplementsReliableLink
<1>1. Init => Reliable!Init
  BY DEF Init, Reliable!Init
<1> QED
  BY <1>1, InductiveHolds, RefinementStep, PTL DEF Spec, ImplementsReliableLink, Reliable!Spec

=============================================================================
