--------------------------- MODULE NetConnection ---------------------------
(***************************************************************************)
(* One CNetConnection (engine/shared/network_conn.cpp) as a record, and    *)
(* its methods as operators from a record to a record.  A method that puts *)
(* packets on the wire yields [conn |-> the connection afterwards,         *)
(* out |-> the set of packets sent].  The modules that hold connections    *)
(* (NetLink, NetServer) turn these operators into actions.                 *)
(*                                                                         *)
(* Abstractions: a chunk is its vital flag, its wire sequence number and a *)
(* number standing for its payload; the byte budget of a packet and the    *)
(* limit of 255 chunks are one bound, MaxChunks; the 32 KB resend buffer   *)
(* holds BufCap chunks (RingBuffer models the bytes); timers are inputs.   *)
(***************************************************************************)
EXTENDS Naturals, Sequences, FiniteSets

CONSTANTS
    MaxSeq,     \* NET_MAX_SEQUENCE
    MaxChunks,  \* how many chunks fit into one packet
    BufCap      \* how many chunks fit into the resend buffer

\* NET_MAX_SEQUENCE is 1024; the 32 KB buffer holds at most 455 of the
\* smallest chunks, which is less than half of the sequence space.
ASSUME NetConnectionAssumption ==
    /\ MaxSeq \in Nat \ {0} /\ MaxSeq % 2 = 0
    /\ MaxChunks \in Nat \ {0}
    /\ BufCap \in Nat \ {0}
    /\ BufCap < MaxSeq \div 2

-----------------------------------------------------------------------------
State == {"OFFLINE", "WANT_TOKEN", "CONNECT", "PENDING", "ONLINE", "ERROR"}

Control == {"NONE", "KEEPALIVE", "CONNECT", "CONNECTACCEPT", "ACCEPT", "CLOSE", "TOKEN"}

Sequence == 0 .. MaxSeq - 1

Chunk == [vital : BOOLEAN, seq : Sequence, data : Nat]

Packet == [ctrl : Control, ack : Sequence, resend : BOOLEAN, chunks : Seq(Chunk)]

Connection ==
    [state : State, sequence : Sequence, ack : Sequence, peerAck : Sequence,
     remoteClosed : BOOLEAN, unknownSeq : BOOLEAN, sixup : BOOLEAN,
     timeoutProtected : BOOLEAN, timeoutSituation : BOOLEAN,
     buffer : Seq(Chunk), construct : [chunks : Seq(Chunk), resend : BOOLEAN]]

EmptyConstruct == [chunks |-> <<>>, resend |-> FALSE]

\* CNetConnection::Reset(false): what Init, Connect, DirectInit and
\* Disconnect start from or end in.
ResetConnection ==
    [state |-> "OFFLINE", sequence |-> 0, ack |-> 0, peerAck |-> 0,
     remoteClosed |-> FALSE, unknownSeq |-> FALSE, sixup |-> FALSE,
     timeoutProtected |-> FALSE, timeoutSituation |-> FALSE,
     buffer |-> <<>>, construct |-> EmptyConstruct]

\* CNetConnection::Reset(true): the state, the token, the protocol version and
\* the two timeout flags survive.
RejoinReset(c) ==
    [ResetConnection EXCEPT !.state = c.state,
                            !.sixup = c.sixup,
                            !.timeoutProtected = c.timeoutProtected,
                            !.timeoutSituation = c.timeoutSituation]

\* CNetConnection::DirectInit: how the server opens a slot.
DirectInit(sixup) == [ResetConnection EXCEPT !.state = "ONLINE", !.sixup = sixup]

\* CNetConnection::ResumeConnection: the timed-out connection c takes over from
\* the connection n.  What is not assigned stays: m_PeerAck, m_Construct,
\* m_UnknownSeq, m_TimeoutProtected and m_TimeoutSituation.
ResumeConnection(c, n) ==
    [c EXCEPT !.state = "ONLINE", !.sequence = n.sequence, !.ack = n.ack,
              !.remoteClosed = FALSE, !.sixup = n.sixup, !.buffer = n.buffer]

Alive(c) == c.state \notin {"OFFLINE", "ERROR"}

-----------------------------------------------------------------------------
(* Sequence numbers *)

NextSeq(s) == (s + 1) % MaxSeq

\* CNetBase::IsSeqInBackroom: s is one of the MaxSeq / 2 + 1 numbers that end
\* with a.
IsSeqInBackroom(s, a) ==
    IF a < MaxSeq \div 2
    THEN s <= a \/ s >= a + MaxSeq - MaxSeq \div 2
    ELSE s <= a /\ s >= a - MaxSeq \div 2

\* The check at the head of Feed: "own sequence .. latest peer ack".
AckValid(c, a) ==
    IF c.sequence >= c.peerAck
    THEN c.peerAck <= a /\ a <= c.sequence
    ELSE c.peerAck <= a \/ a <= c.sequence

-----------------------------------------------------------------------------
(* Sending *)

ControlPacket(c, ctrl) ==
    [ctrl |-> ctrl, ack |-> c.ack, resend |-> FALSE, chunks |-> <<>>]

\* CNetConnection::Flush
Flush(c) ==
    IF c.construct.chunks = <<>> /\ ~c.construct.resend
    THEN [conn |-> c, out |-> {}]
    ELSE [conn |-> [c EXCEPT !.construct = EmptyConstruct],
          out |-> {[ctrl |-> "NONE", ack |-> c.ack, resend |-> c.construct.resend,
                    chunks |-> c.construct.chunks]}]

\* QueueChunkEx for the chunks of q, one after the other: a packet that is
\* full when the next chunk comes is flushed first, and takes the resend flag
\* with it.
Queue(c, q) ==
    LET all == c.construct.chunks \o q
        full == IF q = <<>> THEN 0 ELSE (Len(all) - 1) \div MaxChunks
        Part(i) == SubSeq(all, (i - 1) * MaxChunks + 1, i * MaxChunks)
    IN  IF ~Alive(c)
        THEN [conn |-> c, out |-> {}]
        ELSE [conn |-> [c EXCEPT !.construct =
                  [chunks |-> SubSeq(all, full * MaxChunks + 1, Len(all)),
                   resend |-> c.construct.resend /\ full = 0]],
              out |-> {[ctrl |-> "NONE", ack |-> c.ack,
                        resend |-> c.construct.resend /\ i = 1,
                        chunks |-> Part(i)] : i \in 1 .. full}]

\* CNetConnection::QueueChunk: a vital chunk takes the next sequence number,
\* even when QueueChunkEx then refuses it, and is kept for a resend if the
\* buffer has room.  saved is the return value 0.
QueueChunk(c, vital, data) ==
    LET s == IF vital THEN NextSeq(c.sequence) ELSE c.sequence
        k == [vital |-> vital, seq |-> s, data |-> data]
        room == Len(c.buffer) < BufCap
        r == Queue([c EXCEPT !.sequence = s], <<k>>)
    IN  [conn |-> IF vital /\ room /\ Alive(c)
                  THEN [r.conn EXCEPT !.buffer = Append(@, k)]
                  ELSE r.conn,
         out |-> r.out,
         saved |-> Alive(c) /\ (vital => room)]

\* CNetConnection::Resend: every chunk of the buffer is queued again.
Resend(c) == Queue(c, c.buffer)

\* CNetConnection::SignalResend
SignalResend(c) == [c EXCEPT !.construct.resend = TRUE]

\* CNetConnection::Disconnect
Disconnect(c) ==
    [conn |-> ResetConnection,
     out |-> IF c.state # "OFFLINE" /\ ~c.remoteClosed /\ ~c.timeoutSituation
             THEN {ControlPacket(c, "CLOSE")}
             ELSE {}]

-----------------------------------------------------------------------------
(* Receiving *)

\* Mutant: every ack empties the buffer.
AckChunksAll(c, a) == [c EXCEPT !.buffer = <<>>]

\* CNetConnection::AckChunks: pops the leading chunks that a acknowledges.
AckChunks(c, a) ==
    LET Acked(i) == IsSeqInBackroom(c.buffer[i].seq, a)
        n == CHOOSE m \in 0 .. Len(c.buffer) :
                /\ \A i \in 1 .. m : Acked(i)
                /\ m < Len(c.buffer) => ~Acked(m + 1)
    IN  [c EXCEPT !.buffer = SubSeq(@, n + 1, Len(@))]

\* The control messages Feed acts on, other than CLOSE: the client's half of
\* the 0.6 and 0.7 handshakes.  (No caller feeds an OFFLINE connection, so the
\* branch of Feed that leads to PENDING is dead code and left out.)
FeedControl(c, ctrl) ==
    CASE ctrl = "TOKEN" /\ c.sixup /\ c.state = "WANT_TOKEN" ->
            [conn |-> [c EXCEPT !.state = "CONNECT"], out |-> {ControlPacket(c, "CONNECT")}]
      [] ctrl = "CONNECTACCEPT" /\ c.state = "CONNECT" ->
            [conn |-> [c EXCEPT !.state = "ONLINE"],
             out |-> IF c.sixup THEN {} ELSE {ControlPacket(c, "ACCEPT")}]
      [] OTHER -> [conn |-> c, out |-> {}]

\* Mutant: Feed forgets to note the ack it accepted.
HeardNothing(c, a) == c

\* m_PeerAck = pPacket->m_Ack
Heard(c, a) == [c EXCEPT !.peerAck = a]

\* CNetConnection::Feed of a packet from the peer's address with its token.
\* ok is the return value.
Feed(c, p) ==
    LET heard == Heard(c, p.ack)
        resent == IF p.resend THEN Resend(heard) ELSE [conn |-> heard, out |-> {}]
        ctl == FeedControl(resent.conn, p.ctrl)
    IN  IF ~AckValid(c, p.ack)
        THEN [ok |-> FALSE, conn |-> c, out |-> {}]
        ELSE IF p.ctrl = "CLOSE"
        THEN [ok |-> FALSE, out |-> resent.out,
              conn |-> [resent.conn EXCEPT !.state = "ERROR", !.remoteClosed = TRUE]]
        ELSE [ok |-> TRUE, out |-> resent.out \cup ctl.out,
              conn |-> IF ctl.conn.state = "ONLINE"
                       THEN AckChunks(ctl.conn, p.ack)
                       ELSE ctl.conn]

\* Mutant: anything newer than the last chunk will do.
InSequenceOrLater(c, k) == ~IsSeqInBackroom(k.seq, c.ack) \/ c.unknownSeq

\* A chunk of the packet being unpacked that is handed to the application.
InSequence(c, k) == k.seq = NextSeq(c.ack) \/ c.unknownSeq

\* Mutant: the sequence number of a vital chunk is not looked at.
DeliverableAny(c, k) == TRUE

Deliverable(c, k) == k.vital => InSequence(c, k)

\* CPacketChunkUnpacker::UnpackNextChunk on the chunks q left of the packet:
\* skips what cannot be delivered, asking for a resend on a gap, and stops
\* after the first chunk it delivers (got, chunk).
UnpackNextChunk(c, q) ==
    LET n == CHOOSE m \in 0 .. Len(q) :
                /\ \A i \in 1 .. m : ~Deliverable(c, q[i])
                /\ m < Len(q) => Deliverable(c, q[m + 1])
        gap == \E i \in 1 .. n : ~IsSeqInBackroom(q[i].seq, c.ack)
        c1 == IF gap THEN SignalResend(c) ELSE c
        got == n < Len(q)
    IN  [got |-> got,
         chunk |-> IF got THEN q[n + 1] ELSE [vital |-> FALSE, seq |-> 0, data |-> 0],
         rest |-> SubSeq(q, n + 2, Len(q)),
         conn |-> IF got /\ q[n + 1].vital
                  THEN [c1 EXCEPT !.ack = q[n + 1].seq, !.unknownSeq = FALSE]
                  ELSE c1]

-----------------------------------------------------------------------------
(* Time *)

\* What the clock says when Update runs: lost and weak, nothing received (the
\* oldest chunk not acknowledged) for conn_timeout seconds; due, the oldest
\* chunk was last sent more than a second ago; idle and quiet, nothing sent for
\* half a second and for a second; over, the timeout protection has expired.
\* A connection that dies does nothing else in that Update, and only a dead one
\* looks at over: the combinations that make no difference are left out.
Clock ==
    {t \in [lost : BOOLEAN, weak : BOOLEAN, due : BOOLEAN, idle : BOOLEAN,
            quiet : BOOLEAN, over : BOOLEAN] :
        /\ t.quiet => t.idle
        /\ t.lost \/ t.weak \/ t.over => ~t.due /\ ~t.idle
        /\ t.over => ~t.lost /\ ~t.weak}

\* Mutant: only a chunk that is not acknowledged ends a connection.
TimesOutWeakOnly(c, t) == t.weak /\ c.buffer # <<>>

\* Update gives a connection up.
TimesOut(c, t) == (t.lost /\ c.state # "CONNECT") \/ (t.weak /\ c.buffer # <<>>)

\* Mutant: nothing is sent again unless the peer asks for it.
ResendDueNever(c, t) == FALSE

\* Update queues the oldest chunk again.
ResendDue(c, t) == c.buffer # <<>> /\ t.due

\* Mutant: the CONNECT is sent only once.
HeartbeatOnline(c, idle, quiet) ==
    IF c.state = "ONLINE" /\ quiet THEN {ControlPacket(c, "KEEPALIVE")} ELSE {}

\* What Update sends after half a second (idle) and a second (quiet) of silence.
Heartbeat(c, idle, quiet) ==
    CASE c.state = "ONLINE" /\ quiet -> {ControlPacket(c, "KEEPALIVE")}
      [] c.state = "CONNECT" /\ idle -> {ControlPacket(c, "CONNECT")}
      [] c.state = "PENDING" /\ idle -> {ControlPacket(c, "CONNECTACCEPT")}
      [] OTHER -> {}

\* CNetConnection::Update
Update(c, t) ==
    LET dead == TimesOut(c, t)
        c1 == [c EXCEPT !.timeoutSituation = dead, !.state = IF dead THEN "ERROR" ELSE @]
        resent == IF ResendDue(c, t)
                  THEN Queue(c1, <<Head(c.buffer)>>)
                  ELSE [conn |-> c1, out |-> {}]
        idle == t.idle /\ resent.out = {}
        flushed == IF idle /\ c1.state = "ONLINE"
                   THEN Flush(resent.conn)
                   ELSE [conn |-> resent.conn, out |-> {}]
        beat == Heartbeat(c1, idle, t.quiet /\ idle /\ flushed.out = {})
    IN  IF ~Alive(c)
        THEN [conn |-> [c EXCEPT !.timeoutSituation =
                            @ /\ ~(c.state = "ERROR" /\ t.over)],
              out |-> {}]
        ELSE [conn |-> flushed.conn, out |-> resent.out \cup flushed.out \cup beat]

=============================================================================
