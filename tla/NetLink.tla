------------------------------ MODULE NetLink ------------------------------
(***************************************************************************)
(* An established session: the CNetConnection of a CNetClient and the one  *)
(* of a CNetServer slot, joined by UDP.  Datagrams are lost, duplicated    *)
(* and reordered; the two ends queue vital and non-vital chunks, flush,    *)
(* resend, acknowledge, time out and close.                                *)
(*                                                                         *)
(* The payload of a vital chunk is its number in the order of sending, so  *)
(* that what arrives can be compared with what was sent.  The receiver     *)
(* never looks at it: it only sees the sequence number, which wraps.       *)
(***************************************************************************)
EXTENDS NetConnection

CONSTANTS
    MaxSent,   \* bound: how many vital chunks each end queues
    NonVital,  \* bound: the ends that also send non-vital chunks
    MaxNet,    \* bound: how many packets are in flight towards each end
    Lag        \* how many vital chunks a packet may be overtaken by

End == {"client", "server"}

\* A datagram does not survive a whole turn of the sequence space.
ASSUME NetLinkAssumption ==
    /\ MaxSent \in [End -> Nat]
    /\ NonVital \subseteq End
    /\ MaxNet \in [End -> Nat]
    /\ Lag \in Nat
    /\ Lag + BufCap < MaxSeq

VARIABLES
    conn,     \* the CNetConnection of each end
    inbox,    \* m_PacketChunkUnpacker: chunks of the last packet not yet unpacked
    net,      \* datagrams in flight towards each end
    sent,     \* history: how many vital chunks each end has queued
    unsaved,  \* history: those of them the resend buffer had no room for
    log       \* history: payloads of the vital chunks delivered at each end

vars == <<conn, inbox, net, sent, unsaved, log>>

Peer(e) == CHOOSE f \in End : f # e

\* A datagram remembers how much its sender had delivered when it was sent;
\* only the environment's age limit reads this.
Datagram == [pkt : Packet, rcvd : Nat]

TypeOK ==
    /\ conn \in [End -> Connection]
    /\ inbox \in [End -> Seq(Chunk)]
    /\ net \in [End -> SUBSET Datagram]
    /\ sent \in [End -> Nat]
    /\ unsaved \in [End -> SUBSET Nat]
    /\ log \in [End -> Seq(Nat)]

-----------------------------------------------------------------------------
(* The network *)

\* The packets of out leave end e.  What would exceed MaxNet is lost.
Transmit(e, out) ==
    LET all == net[Peer(e)] \cup {[pkt |-> p, rcvd |-> Len(log[e])] : p \in out}
    IN  net' = IF Cardinality(all) <= MaxNet[Peer(e)]
               THEN [net EXCEPT ![Peer(e)] = all]
               ELSE net

\* d, on its way to end e, has been overtaken by at most Lag chunks in each
\* direction.
Fresh(e, d) ==
    /\ Len(log[Peer(e)]) <= d.rcvd + Lag
    /\ \A i \in 1 .. Len(d.pkt.chunks) :
          d.pkt.chunks[i].vital => sent[Peer(e)] <= d.pkt.chunks[i].data + Lag

Lose(e, d) ==
    /\ net' = [net EXCEPT ![e] = @ \ {d}]
    /\ UNCHANGED <<conn, inbox, sent, unsaved, log>>

-----------------------------------------------------------------------------
(* The two ends.  CNetServer::Recv, CNetClient::Recv, the message handlers  *)
(* and Update run in one thread: Recv hands out one chunk per call and the  *)
(* handler of that chunk may send or disconnect before the next call.       *)

Init ==
    /\ conn = [e \in End |-> DirectInit(FALSE)]
    /\ inbox = [e \in End |-> <<>>]
    /\ net = [e \in End |-> {}]
    /\ sent = [e \in End |-> 0]
    /\ unsaved = [e \in End |-> {}]
    /\ log = [e \in End |-> <<>>]

\* CNetServer::Send and CNetClient::Send.  The server skips the flush when
\* QueueChunk fails, the client does not look.
Send(e, vital, flush) ==
    LET n == sent[e] + 1
        q == QueueChunk(conn[e], vital, IF vital THEN n ELSE 0)
        f == IF flush /\ (e = "client" \/ q.saved)
             THEN Flush(q.conn)
             ELSE [conn |-> q.conn, out |-> {}]
    IN  /\ conn[e].state # "OFFLINE"
        /\ IF vital THEN n <= MaxSent[e] ELSE e \in NonVital
        /\ conn' = [conn EXCEPT ![e] = f.conn]
        /\ sent' = [sent EXCEPT ![e] = IF vital THEN n ELSE @]
        /\ unsaved' = [unsaved EXCEPT ![e] = IF vital /\ ~q.saved THEN @ \cup {n} ELSE @]
        /\ Transmit(e, q.out \cup f.out)
        /\ UNCHANGED <<inbox, log>>

\* The chunk u that Recv returns goes to the handlers.  After a Disconnect in
\* the middle of a packet the session is over and the upper layer drops what
\* is still unpacked.
Deliver(e, u) ==
    /\ inbox' = [inbox EXCEPT ![e] = u.rest]
    /\ log' = IF u.got /\ u.chunk.vital /\ conn[e].state # "OFFLINE"
              THEN [log EXCEPT ![e] = Append(@, u.chunk.data)]
              ELSE log

\* Recv on a fresh datagram: Feed, then unpack up to the first chunk to deliver.
Receive(e, d) ==
    LET f == Feed(conn[e], d.pkt)
        u == UnpackNextChunk(f.conn, IF f.ok THEN d.pkt.chunks ELSE <<>>)
    IN  /\ inbox[e] = <<>>
        /\ Alive(conn[e])
        /\ Fresh(e, d)
        /\ conn' = [conn EXCEPT ![e] = u.conn]
        /\ Deliver(e, u)
        /\ Transmit(e, f.out)
        /\ UNCHANGED <<sent, unsaved>>

\* Recv with chunks of the last packet still to unpack.
ReceiveNext(e) ==
    LET u == UnpackNextChunk(conn[e], inbox[e])
    IN  /\ inbox[e] # <<>>
        /\ conn' = [conn EXCEPT ![e] = u.conn]
        /\ Deliver(e, u)
        /\ UNCHANGED <<net, sent, unsaved>>

\* CNetServer::Update and CNetClient::Update: a connection in ERROR is closed.
\* (The timeout protection of a server slot is in NetServer.)
UpdateConnection(e, t) ==
    LET u == Update(conn[e], t)
        d == IF u.conn.state = "ERROR"
             THEN Disconnect(u.conn)
             ELSE [conn |-> u.conn, out |-> {}]
    IN  /\ inbox[e] = <<>>
        /\ conn[e].state # "OFFLINE"
        /\ conn' = [conn EXCEPT ![e] = d.conn]
        /\ Transmit(e, u.out \cup d.out)
        /\ UNCHANGED <<inbox, sent, unsaved, log>>

\* CNetServer::Drop and CNetClient::Disconnect, from a handler or the console.
Close(e) ==
    LET d == Disconnect(conn[e])
    IN  /\ conn[e].state # "OFFLINE"
        /\ conn' = [conn EXCEPT ![e] = d.conn]
        /\ Transmit(e, d.out)
        /\ UNCHANGED <<inbox, sent, unsaved, log>>

Next ==
    \E e \in End :
        \/ \E vital, flush \in BOOLEAN : Send(e, vital, flush)
        \/ \E d \in net[e] : Receive(e, d) \/ Lose(e, d)
        \/ ReceiveNext(e)
        \/ \E t \in Clock : UpdateConnection(e, t)
        \/ Close(e)

Spec == Init /\ [][Next]_vars

-----------------------------------------------------------------------------
(* What the session promises *)

Intact(e) == unsaved[e] = {}

\* Exactly once and in order: what an end has delivered is 1, 2, 3, ...,
\* nothing skipped, repeated or swapped, as long as the resend buffer never
\* refused a chunk (UnpackNextChunk, Feed, AckChunks and Resend together).
InOrder ==
    \A e \in End : Intact(Peer(e)) =>
        /\ Len(log[e]) <= sent[Peer(e)]
        /\ \A i \in 1 .. Len(log[e]) : log[e][i] = i

\* AckChunks never releases a chunk the peer has not delivered: everything
\* between the peer's log and the last chunk sent can still be resent.
NothingForgotten ==
    \A e \in End : conn[e].state # "OFFLINE" /\ Intact(e) =>
        \A n \in Len(log[Peer(e)]) + 1 .. sent[e] :
            \E i \in 1 .. Len(conn[e].buffer) : conn[e].buffer[i].data = n

\* The window check of Feed accepts a packet that carries the peer's present
\* ack: an end can never be locked out of a live session.
NeverLockedOut ==
    \A e \in End : conn[e].state # "OFFLINE" /\ conn[Peer(e)].state # "OFFLINE" /\ Intact(e) =>
        AckValid(conn[e], conn[Peer(e)].ack)

\* Chunks that carry the number of one of the first n submitted, and under the
\* sequence number that belongs to it.
Numbered(n) ==
    {k \in Chunk : k.vital => k.data \in 1 .. n /\ k.seq = k.data % MaxSeq}

\* q holds the chunks n + 1, n + 2, ...
Consecutive(q, n) ==
    \A i \in 1 .. Len(q) :
        q[i] = [vital |-> TRUE, seq |-> (n + i) % MaxSeq, data |-> n + i]

\* Whatever e has queued, kept or sent is numbered.
Labelled(e) ==
    /\ conn[e].state \in {"OFFLINE", "ONLINE", "ERROR"}
    /\ conn[e].state # "OFFLINE" => conn[e].sequence = sent[e] % MaxSeq
    /\ conn[e].buffer \in Seq(Numbered(sent[e]))
    /\ conn[e].construct.chunks \in Seq(Numbered(sent[e]))
    /\ inbox[Peer(e)] \in Seq(Numbered(sent[e]))
    /\ \A d \in net[Peer(e)] : d.pkt.chunks \in Seq(Numbered(sent[e]))

\* e keeps the last chunks it has sent, from some chunk on that is not past what
\* its peer has delivered, and the latest ack it has seen lies between the two.
Sender(e) ==
    LET kept == Len(conn[e].buffer)
    IN  conn[e].state # "OFFLINE" =>
            /\ kept <= BufCap /\ kept <= sent[e]
            /\ Consecutive(conn[e].buffer, sent[e] - kept)
            /\ \E p \in sent[e] - kept .. Len(log[Peer(e)]) : conn[e].peerAck = p % MaxSeq

\* Of the chunks q still to unpack none is older, by more than Lag, than what has
\* been delivered or than another one of them.
Recent(q, got) ==
    \A i \in 1 .. Len(q) : q[i].vital =>
        /\ got <= q[i].data + Lag
        /\ \A j \in 1 .. Len(q) : q[j].vital => q[j].data <= q[i].data + Lag

\* f has delivered a prefix of what its peer has sent, at most a buffer behind.
Receiver(f) ==
    LET got == Len(log[f])
    IN  /\ got <= sent[Peer(f)] /\ sent[Peer(f)] <= got + BufCap
        /\ \A i \in 1 .. got : log[f][i] = i
        /\ conn[f].state # "OFFLINE" => conn[f].ack = got % MaxSeq /\ ~conn[f].unknownSeq
        /\ Recent(inbox[f], got)

\* The packets on their way to e carry acks that its peer has really sent.
Acks(e) ==
    \A d \in net[e] : d.rcvd <= Len(log[Peer(e)]) /\ d.pkt.ack = d.rcvd % MaxSeq

\* The inductive invariant: a sequence number stands for one chunk only, since
\* sender, receiver and network together never span MaxSeq chunks.
Inductive ==
    \A e \in End :
        /\ Labelled(e)
        /\ Intact(e) => Sender(e) /\ Receiver(Peer(e)) /\ Acks(e)

\* The session implements two reliable FIFO channels.
Reliable == INSTANCE ReliableLink

ImplementsReliableLink == Reliable!Spec

-----------------------------------------------------------------------------
(* Liveness *)

\* Update runs once per tick or frame; when it finds nothing acknowledged or
\* sent for a second it resends the oldest chunk, flushes and keeps alive.
TimersRun ==
    [lost |-> FALSE, weak |-> FALSE, due |-> TRUE, idle |-> TRUE, quiet |-> TRUE, over |-> FALSE]

Carries(d, n) ==
    \E i \in 1 .. Len(d.pkt.chunks) : d.pkt.chunks[i].vital /\ d.pkt.chunks[i].data = n

\* The main loop keeps running (Recv until nothing is left, then Update), no
\* datagram stays in flight for ever, and the network is fair: room is made
\* for a datagram again and again, and a chunk or an ack that is sent again
\* and again arrives.
Fairness ==
    \A e \in End :
        /\ WF_vars(ReceiveNext(e))
        /\ WF_vars(\E d \in net[e] : Lose(e, d))
        /\ SF_vars(/\ Cardinality(net[Peer(e)]) < MaxNet[Peer(e)]
                   /\ UpdateConnection(e, TimersRun))
        /\ \A n \in 1 .. MaxSent[Peer(e)] :
              SF_vars(\E d \in net[e] : Carries(d, n) /\ Receive(e, d))
        /\ \A n \in 1 .. MaxSent[e] :
              SF_vars(\E d \in net[e] : d.rcvd = n /\ Receive(e, d))

FairSpec == Spec /\ Fairness

Online == \A e \in End : conn[e].state = "ONLINE"

\* Every vital chunk is eventually delivered and its place in the resend
\* buffer given back, unless the session ends or the buffer overflowed.
EventuallyAcked ==
    \A e \in End : \A n \in 1 .. MaxSent[e] :
        sent[e] >= n ~>
            \/ /\ Len(log[Peer(e)]) >= n
               /\ \A i \in 1 .. Len(conn[e].buffer) : conn[e].buffer[i].data # n
            \/ ~Online
            \/ ~Intact(e)

=============================================================================
