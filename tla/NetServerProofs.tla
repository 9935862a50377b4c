--------------------------- MODULE NetServerProofs ---------------------------
(***************************************************************************)
(* Proofs about NetServer, for every number of slots and clients: its type *)
(* invariant, that the upper layer and the network agree on the slots in   *)
(* use, that an address has at most one live slot, that a slot in use only *)
(* changes hands by a takeover, and the limit per IP.                      *)
(*                                                                         *)
(* Every step of the system does one of four things to the slots (SlotStep): *)
(* that is shown once, action by action, and the theorems follow from it.  *)
(***************************************************************************)
EXTENDS NetServer, NetConnectionProofs, FiniteSetTheorems

\* What counts against the limit per IP.
Taken(conn) == Alive(conn) \/ Parked(conn)

\* d is c after a method that neither opens nor closes it: it may only die, or
\* lose its protection.
Older(d, c) ==
    /\ d \in Connection
    /\ d.state = "OFFLINE" <=> c.state = "OFFLINE"
    /\ Alive(d) => Alive(c)
    /\ Taken(d) => Taken(c)

\* No slot is opened, closed or handed over.
Kept ==
    /\ \A i \in Slot : Older(slot'[i], slot[i])
    /\ slot' \in [Slot -> Connection]
    /\ UNCHANGED <<peer, joined>>

Closed(i) ==
    /\ slot' = [slot EXCEPT ![i] = ResetConnection]
    /\ peer' = [peer EXCEPT ![i] = None]
    /\ joined' = [joined EXCEPT ![i] = FALSE]

Opened(i, c) ==
    /\ slot[i].state = "OFFLINE"
    /\ SlotsOf(c) = {}
    /\ ~(Cardinality(ClientsWithIp(IpOf[c])) + 1 > MaxClientsPerIp)
    /\ slot' = [slot EXCEPT ![i] = DirectInit(c \in Sixup)]
    /\ peer' = [peer EXCEPT ![i] = c]
    /\ joined' = [joined EXCEPT ![i] = TRUE]

Moved(i, k, conn) ==
    /\ i # k
    /\ Alive(slot[i])
    /\ slot[k].state = "ERROR" /\ joined[k] /\ code[k] = CodeOf[peer[i]]
    /\ conn.state = "ONLINE"
    /\ slot' = [slot EXCEPT ![k] = conn, ![i] = ResetConnection]
    /\ peer' = [peer EXCEPT ![k] = peer[i], ![i] = None]
    /\ joined' = [joined EXCEPT ![i] = FALSE]

SlotStep ==
    \/ Kept
    \/ \E i \in Slot : Closed(i)
    \/ \E i \in Slot, c \in Client : Opened(i, c)
    \/ \E i, k \in Slot, conn \in Connection : Moved(i, k, conn)

-----------------------------------------------------------------------------
(* Connections *)

LEMMA Same ==
    ASSUME NEW c \in Connection
    PROVE  Older(c, c)
BY DEF Older

LEMMA OlderTwice ==
    ASSUME NEW c, NEW d, NEW e, Older(d, c), Older(e, d)
    PROVE  Older(e, c)
BY DEF Older

\* Who is alive before and does not go offline is only older afterwards.
LEMMA AgeAlive ==
    ASSUME NEW c \in Connection, NEW d \in Connection, Alive(c), d.state # "OFFLINE"
    PROVE  Older(d, c)
BY DEF Older, Alive, Taken

LEMMA DirectInitType ==
    ASSUME NEW six \in BOOLEAN
    PROVE  DirectInit(six) \in Connection /\ DirectInit(six).state = "ONLINE"
BY ResetType DEF DirectInit, Connection, State

LEMMA RejoinType ==
    ASSUME NEW c \in Connection
    PROVE  RejoinReset(c) \in Connection /\ RejoinReset(c).state = c.state
BY ResetType DEF RejoinReset, Connection

LEMMA ResumeType ==
    ASSUME NEW c \in Connection, NEW n \in Connection
    PROVE  ResumeConnection(c, n) \in Connection /\ ResumeConnection(c, n).state = "ONLINE"
BY DEF ResumeConnection, Connection, State

\* Update of a dead connection at most ends its protection.
LEMMA UpdateOlder ==
    ASSUME NEW c \in Connection, NEW t \in Clock, c.state # "OFFLINE"
    PROVE  Older(Update(c, t).conn, c) /\ Update(c, t).out \subseteq Packet
<1>1. Update(c, t) \in Step /\ Update(c, t).conn.state # "OFFLINE"
  BY UpdateType
<1>2. Update(c, t).conn \in Connection /\ Update(c, t).out \subseteq Packet
  BY <1>1 DEF Step
<1>3. CASE Alive(c)
  BY <1>1, <1>2, <1>3, AgeAlive
<1>4. CASE ~Alive(c)
  <2> DEFINE expired == [c EXCEPT !.timeoutSituation = @ /\ ~(c.state = "ERROR" /\ t.over)]
  <2>1. Update(c, t).conn = expired
    BY <1>4 DEF Update
  <2>2. /\ expired.state = c.state
        /\ expired.timeoutProtected = c.timeoutProtected
        /\ expired.timeoutSituation => c.timeoutSituation
    BY DEF Connection
  <2> QED
    BY <1>1, <1>2, <2>1, <2>2 DEF Older, Alive, Taken, Parked
<1> QED
  BY <1>2, <1>3, <1>4

\* QueueChunk and Flush, as Tell and SendMap use them.
Sent(c, data) ==
    LET q == QueueChunk(c, TRUE, data)
        f == IF q.saved THEN Flush(q.conn) ELSE [conn |-> q.conn, out |-> {}]
    IN  [conn |-> f.conn, out |-> q.out \cup f.out]

LEMMA SentOlder ==
    ASSUME NEW c \in Connection, NEW data \in Nat
    PROVE  Older(Sent(c, data).conn, c) /\ Sent(c, data).out \subseteq Packet
<1> DEFINE q == QueueChunk(c, TRUE, data)
           f == IF q.saved THEN Flush(q.conn) ELSE [conn |-> q.conn, out |-> {}]
<1>1. q.conn \in Connection /\ q.out \subseteq Packet /\ q.saved \in BOOLEAN
      /\ q.conn.state = c.state
  BY QueueChunkType
<1>2. f.conn \in Connection /\ f.out \subseteq Packet /\ f.conn.state = c.state
  <2> HIDE DEF q
  <2> QED
    BY <1>1, FlushType, FlushState
<1>3. Sent(c, data).conn = f.conn /\ Sent(c, data).out = q.out \cup f.out
  BY DEF Sent
<1>4. CASE Alive(c)
  <2> HIDE DEF q, f
  <2> QED
    BY <1>1, <1>2, <1>3, <1>4, AgeAlive DEF Alive
<1>5. CASE ~Alive(c)
  <2> DEFINE s == NextSeq(c.sequence)
  <2>1. q.saved = FALSE /\ q.conn = [c EXCEPT !.sequence = s]
    BY <1>5 DEF QueueChunk, Queue, Alive, Connection
  <2>2. f.conn = [c EXCEPT !.sequence = s]
    BY <2>1
  <2>3. /\ f.conn.timeoutProtected = c.timeoutProtected
        /\ f.conn.timeoutSituation = c.timeoutSituation
    <3> HIDE DEF f, s
    <3> QED
      BY <2>2 DEF Connection
  <2> HIDE DEF q, f
  <2> QED
    BY <1>1, <1>2, <1>3, <2>3 DEF Older, Alive, Taken, Parked
<1> QED
  BY <1>4, <1>5

LEMMA SendMapType ==
    ASSUME NEW c \in Connection
    PROVE  /\ SendMap(c).conn \in Connection
           /\ SendMap(c).out \subseteq Packet
           /\ SendMap(c).conn.state = c.state
<1> DEFINE q == QueueChunk(c, TRUE, NextSeq(c.sequence))
<1>1. NextSeq(c.sequence) \in Nat
  BY Fields, NextSeqType DEF Sequence
<1>2. q.conn \in Connection /\ q.out \subseteq Packet /\ q.conn.state = c.state
  BY <1>1, QueueChunkType
<1>3. SendMap(c).conn = Flush(q.conn).conn /\ SendMap(c).out = q.out \cup Flush(q.conn).out
  BY DEF SendMap
<1> HIDE DEF q
<1> QED
  BY <1>2, <1>3, FlushType, FlushState

-----------------------------------------------------------------------------
(* The network *)

LEMMA BareType ==
    ASSUME NEW ctrl \in Control
    PROVE  Bare(ctrl) \in Packet
<1>1. <<>> \in Seq(Chunk)
  BY EmptySeq
<1>2. 0 \in Sequence
  BY NetConnectionAssumption DEF Sequence
<1> QED
  BY <1>1, <1>2 DEF Bare, Packet

LEMMA FitType ==
    ASSUME NEW S, NEW old \in SUBSET S, NEW new \in SUBSET S
    PROVE  Fit(old, new) \in SUBSET S
BY DEF Fit

LEMMA FromServerType ==
    ASSUME NEW c \in Client, NEW tok \in Nat, NEW out \in SUBSET Packet
    PROVE  FromServer(c, tok, out) \in SUBSET ToClient
BY DEF FromServer, ToClient

LEMMA FromClientType ==
    ASSUME NEW c \in Client, NEW conn \in Connection, NEW own \in Nat, NEW out \in SUBSET Packet
    PROVE  FromClient(c, conn, own, out) \in SUBSET ToServer
<1>1. HasToken(conn) \in BOOLEAN
  BY DEF HasToken, Connection
<1> QED
  BY <1>1 DEF FromClient, ToServer

LEMMA TimerType ==
    ASSUME NEW e \in Event
    PROVE  Timer(e) \in Clock
BY DEF Event, Timer, Clock

\* A datagram for a slot that is alive, up to the handler of its chunk.
LEMMA InSessionType ==
    ASSUME NEW i \in Slot, NEW m \in ToServer, slot[i] \in Connection, Alive(slot[i])
    PROVE  /\ InSession(i, m).conn \in Connection
           /\ InSession(i, m).conn.state # "OFFLINE"
           /\ InSession(i, m).out \subseteq Packet
           /\ InSession(i, m).timeout \in BOOLEAN
<1> DEFINE re == IF Rejoins(m) THEN SendMap(RejoinReset(slot[i])) ELSE [conn |-> slot[i], out |-> {}]
           f == IF m.tok
                THEN Feed(re.conn, m.pkt)
                ELSE [ok |-> FALSE, conn |-> re.conn, out |-> {}]
           q == IF f.ok THEN m.pkt.chunks ELSE <<>>
           u == UnpackNextChunk(f.conn, q)
           hello == IF m.pkt.ctrl = "CONNECT" /\ m.from \notin Sixup THEN {Bare("CONNECTACCEPT")} ELSE {}
<1>1. /\ InSession(i, m).conn = u.conn
      /\ InSession(i, m).out = hello \cup re.out \cup f.out
      /\ InSession(i, m).timeout = (u.got /\ u.chunk.data = TimeoutCode)
  BY DEF InSession
<1>2. m.pkt \in Packet /\ m.pkt.chunks \in Seq(Chunk)
  BY DEF ToServer, Packet
<1>3. re.conn \in Connection /\ re.out \subseteq Packet /\ re.conn.state = slot[i].state
  BY RejoinType, SendMapType
<1> HIDE DEF re
<1>4. f.conn \in Connection /\ f.out \subseteq Packet /\ f.conn.state # "OFFLINE"
  BY <1>2, <1>3, FeedType DEF Alive
<1>5. q \in Seq(Chunk)
  BY <1>2, EmptySeq
<1> HIDE DEF f, q
<1>6. u.conn \in Connection /\ u.conn.state = f.conn.state
  BY <1>4, <1>5, UnpackNextChunkType
<1>7. (u.got /\ u.chunk.data = TimeoutCode) \in BOOLEAN
  OBVIOUS
<1>8. hello \subseteq Packet
  BY BareType DEF Control
<1> HIDE DEF u, hello
<1> QED
  BY <1>1, <1>3, <1>4, <1>6, <1>7, <1>8

\* Overwrite touches nothing but payloads.
LEMMA OverwriteOlder ==
    ASSUME NEW i \in Slot, NEW conns \in [Slot -> Connection], NEW hit
    PROVE  /\ Overwrite(i, conns, hit) \in [Slot -> Connection]
           /\ \A k \in Slot : Older(Overwrite(i, conns, hit)[k], conns[k])
<1> SUFFICES ASSUME NEW k \in Slot
             PROVE  /\ Overwrite(i, conns, hit)[k] \in Connection
                    /\ Older(Overwrite(i, conns, hit)[k], conns[k])
  BY DEF Overwrite
<1> DEFINE Lost(q) == hit /\ [slot |-> k, seq |-> q.seq, home |-> i] \in alias
           b == conns[k].buffer
           w == [n \in 1 .. Len(b) |-> IF Lost(b[n]) THEN [b[n] EXCEPT !.data = 0] ELSE b[n]]
<1>1. Overwrite(i, conns, hit)[k] = [conns[k] EXCEPT !.buffer = w]
  BY DEF Overwrite
<1>2. conns[k] \in Connection /\ b \in Seq(Chunk)
  BY DEF Connection
<1>3. w \in Seq(Chunk)
  <2>1. Len(b) \in Nat /\ \A n \in 1 .. Len(b) : b[n] \in Chunk
    BY <1>2, ElementOfSeq, LenProperties
  <2>2. \A n \in 1 .. Len(b) : [b[n] EXCEPT !.data = 0] \in Chunk
    <3> HIDE DEF b
    <3> QED
      BY <2>1 DEF Chunk
  <2> HIDE DEF b, Lost
  <2>3. w \in [1 .. Len(b) -> Chunk]
    BY <2>1, <2>2
  <2> QED
    BY <2>1, <2>3
<1> DEFINE d == [conns[k] EXCEPT !.buffer = w]
<1> HIDE DEF w
<1>4. /\ d \in Connection
      /\ d.state = conns[k].state
      /\ d.timeoutProtected = conns[k].timeoutProtected
      /\ d.timeoutSituation = conns[k].timeoutSituation
  BY <1>2, <1>3 DEF Connection
<1> QED
  BY <1>1, <1>4 DEF Older, Alive, Taken, Parked


-----------------------------------------------------------------------------
(* The steps *)

\* The variables that the kinds of SlotStep do not speak of.
OthersOK ==
    /\ token \in [Slot -> Nat]
    /\ alias \subseteq [slot : Slot, seq : Sequence, home : Slot]
    /\ cl \in [Client -> Connection]
    /\ round \in [Client -> Nat]
    /\ toServer \subseteq ToServer
    /\ toClient \subseteq ToClient

\* What the proofs carry along: a slot that is joined has an address.
Inv == TypeOK /\ JoinedIffOpen

LEMMA SlotTypes ==
    ASSUME Inv, NEW i \in Slot
    PROVE  /\ slot[i] \in Connection
           /\ token[i] \in Nat
           /\ joined[i] <=> slot[i].state # "OFFLINE"
           /\ peer[i] \in Client <=> slot[i].state # "OFFLINE"
           /\ peer[i] = None <=> slot[i].state = "OFFLINE"
BY NetServerAssumption DEF Inv, TypeOK, JoinedIffOpen

LEMMA Untouched ==
    ASSUME Inv, UNCHANGED slots
    PROVE  Kept
BY Same DEF Inv, TypeOK, Kept, slots

LEMMA KeptOne ==
    ASSUME Inv, NEW i \in Slot, NEW conn, Older(conn, slot[i]),
           slot' = [slot EXCEPT ![i] = conn], UNCHANGED <<peer, joined>>
    PROVE  Kept
BY Same DEF Inv, TypeOK, Kept, Older

LEMMA ClientStepKind ==
    ASSUME Inv, NEW c \in Client, NEW conn \in Connection, NEW own,
           NEW out \in SUBSET ToServer, ClientStep(c, conn, own, out),
           round' \in [Client -> Nat]
    PROVE  SlotStep /\ OthersOK'
<1>1. UNCHANGED slots /\ UNCHANGED toClient /\ cl' = [cl EXCEPT ![c] = conn]
      /\ toServer' = Fit(toServer, out)
  BY DEF ClientStep
<1>2. Kept
  BY <1>1, Untouched
<1>3. toServer' \subseteq ToServer
  BY <1>1, FitType DEF Inv, TypeOK
<1> QED
  BY <1>1, <1>2, <1>3 DEF Inv, TypeOK, OthersOK, SlotStep, slots

LEMMA ConnectKind ==
    ASSUME Inv, NEW c \in Client, Connect(c)
    PROVE  SlotStep /\ OthersOK'
<1> DEFINE six == c \in Sixup
           n == round[c] + 1
           state == IF six THEN "WANT_TOKEN" ELSE "CONNECT"
           conn == [ResetConnection EXCEPT !.state = state, !.sixup = six]
           out == {Bare(IF six THEN "TOKEN" ELSE "CONNECT")}
<1>1. /\ round' = [round EXCEPT ![c] = n]
      /\ ClientStep(c, conn, n, FromClient(c, conn, n, out))
  BY DEF Connect
<1>2. n \in Nat /\ round' \in [Client -> Nat]
  BY <1>1 DEF Inv, TypeOK
<1>3. conn \in Connection
  <2>1. state \in State /\ six \in BOOLEAN
    BY DEF State
  <2> HIDE DEF state, six
  <2> QED
    BY <2>1, ResetType DEF Connection
<1>4. out \subseteq Packet
  BY BareType DEF Control
<1> HIDE DEF n, conn, out
<1> QED
  BY <1>1, <1>2, <1>3, <1>4, FromClientType, ClientStepKind

LEMMA ClientReceiveKind ==
    ASSUME Inv, NEW m \in toClient, ClientReceive(m)
    PROVE  SlotStep /\ OthersOK'
<1> DEFINE c == m.to
           f == Feed(cl[c], m.pkt)
           q == IF f.ok THEN m.pkt.chunks ELSE <<>>
           u == UnpackNextChunk(f.conn, q)
<1>1. /\ ClientStep(c, u.conn, round[c], FromClient(c, f.conn, round[c], f.out))
      /\ UNCHANGED round
  BY DEF ClientReceive
<1>2. c \in Client /\ m.pkt \in Packet /\ m.pkt.chunks \in Seq(Chunk)
  BY DEF Inv, TypeOK, ToClient, Packet
<1>3. round[c] \in Nat /\ cl[c] \in Connection /\ round' \in [Client -> Nat]
  BY <1>1, <1>2 DEF Inv, TypeOK
<1>4. f.conn \in Connection /\ f.out \subseteq Packet
  BY <1>2, <1>3, FeedType
<1>5. q \in Seq(Chunk)
  BY <1>2, EmptySeq
<1> HIDE DEF c, f, q
<1>6. u.conn \in Connection
  BY <1>4, <1>5, UnpackNextChunkType
<1> HIDE DEF u
<1> QED
  BY <1>1, <1>2, <1>3, <1>4, <1>6, FromClientType, ClientStepKind

LEMMA SayKind ==
    ASSUME Inv, NEW c \in Client, Say(c)
    PROVE  SlotStep /\ OthersOK'
<1> DEFINE q == QueueChunk(cl[c], TRUE, TimeoutCode)
           f == Flush(q.conn)
           out == q.out \cup f.out
<1>1. /\ ClientStep(c, f.conn, round[c], FromClient(c, f.conn, round[c], out))
      /\ UNCHANGED round
  BY DEF Say
<1>2. round[c] \in Nat /\ cl[c] \in Connection /\ round' \in [Client -> Nat] /\ TimeoutCode \in Nat
  BY <1>1 DEF Inv, TypeOK, TimeoutCode
<1>3. q.conn \in Connection /\ q.out \subseteq Packet
  BY <1>2, QueueChunkType
<1> HIDE DEF q
<1>4. f.conn \in Connection /\ out \subseteq Packet
  BY <1>3, FlushType
<1> HIDE DEF f, out
<1> QED
  BY <1>1, <1>2, <1>4, FromClientType, ClientStepKind

LEMMA UpdateClientKind ==
    ASSUME Inv, NEW c \in Client, NEW t \in Clock, UpdateClient(c, t)
    PROVE  SlotStep /\ OthersOK'
<1> DEFINE u == Update(cl[c], t)
           d == IF u.conn.state = "ERROR" THEN Disconnect(u.conn) ELSE [conn |-> u.conn, out |-> {}]
           own == IF c \in Sixup /\ cl[c].state = "CONNECT" THEN 0 ELSE round[c]
           out == u.out \cup d.out
<1>1. /\ ClientStep(c, d.conn, own, FromClient(c, u.conn, own, out))
      /\ UNCHANGED round
  BY DEF UpdateClient
<1>2. own \in Nat /\ cl[c] \in Connection /\ round' \in [Client -> Nat]
  BY <1>1 DEF Inv, TypeOK
<1>3. u.conn \in Connection /\ u.out \subseteq Packet
  BY <1>2, UpdateType DEF Step
<1> HIDE DEF u, own
<1>4. d.conn \in Connection /\ out \subseteq Packet
  BY <1>3, DisconnectType DEF Step
<1> HIDE DEF d, out
<1> QED
  BY <1>1, <1>2, <1>3, <1>4, FromClientType, ClientStepKind

LEMMA LeaveKind ==
    ASSUME Inv, NEW c \in Client, Leave(c)
    PROVE  SlotStep /\ OthersOK'
<1> DEFINE d == Disconnect(cl[c])
<1>1. /\ ClientStep(c, d.conn, round[c], FromClient(c, cl[c], round[c], d.out))
      /\ UNCHANGED round
  BY DEF Leave
<1>2. round[c] \in Nat /\ cl[c] \in Connection /\ round' \in [Client -> Nat]
  BY <1>1 DEF Inv, TypeOK
<1>3. d.conn \in Connection /\ d.out \subseteq Packet
  BY <1>2, DisconnectType DEF Step
<1> HIDE DEF d
<1> QED
  BY <1>1, <1>2, <1>3, FromClientType, ClientStepKind

LEMMA LoseKind ==
    ASSUME Inv, LoseToServer \/ LoseToClient
    PROVE  SlotStep /\ OthersOK'
<1>1. UNCHANGED slots /\ UNCHANGED <<cl, round>>
  BY DEF LoseToServer, LoseToClient
<1>2. Kept
  BY <1>1, Untouched
<1>3. toServer' \subseteq toServer /\ toClient' \subseteq toClient
  BY DEF LoseToServer, LoseToClient
<1> QED
  BY <1>1, <1>2, <1>3 DEF Inv, TypeOK, OthersOK, SlotStep, slots

LEMMA TryAcceptClientKind ==
    ASSUME Inv, NEW m \in ToServer, NEW refuse \in BOOLEAN, NEW hello \in SUBSET ToClient,
           SlotsOf(m.from) = {},
           TryAcceptClient(m, refuse, hello), UNCHANGED <<cl, round, toServer>>
    PROVE  SlotStep /\ OthersOK'
<1> DEFINE c == m.from
           empty == {i \in Slot : slot[i].state = "OFFLINE"}
           i == CHOOSE k \in empty : IsMin(k, empty)
           refused == \/ refuse
                      \/ Cardinality(ClientsWithIp(IpOf[c])) + 1 > MaxClientsPerIp
                      \/ empty = {}
<1>1. c \in Client /\ m.own \in Nat
  BY DEF ToServer
<1>2. CASE refused
  <2>1. /\ toClient' = Fit(toClient, hello \cup FromServer(c, m.own, {Bare("CLOSE")}))
        /\ UNCHANGED slots
    BY <1>2 DEF TryAcceptClient
  <2>2. {Bare("CLOSE")} \subseteq Packet
    BY BareType DEF Control
  <2>3. hello \cup FromServer(c, m.own, {Bare("CLOSE")}) \subseteq ToClient
    BY <1>1, <2>2, FromServerType
  <2>4. toClient' \subseteq ToClient
    <3> DEFINE new == hello \cup FromServer(c, m.own, {Bare("CLOSE")})
    <3>1. toClient \in SUBSET ToClient /\ new \in SUBSET ToClient /\ toClient' = Fit(toClient, new)
      BY <2>1, <2>3 DEF Inv, TypeOK
    <3> HIDE DEF new
    <3> QED
      BY <3>1, FitType
  <2> QED
    BY <2>1, <2>4, Untouched DEF Inv, TypeOK, OthersOK, SlotStep, slots
<1>3. CASE ~refused
  <2>1. i \in Slot /\ slot[i].state = "OFFLINE"
    <3>1. empty \in SUBSET Nat /\ empty # {}
      BY <1>3 DEF Slot
    <3>2. \E k \in empty : IsMin(k, empty)
      <4> HIDE DEF empty
      <4> QED
        BY <3>1, LeastNumber DEF IsMin
    <3>3. i \in empty
      <4> HIDE DEF empty
      <4> QED
        BY <3>2
    <3> QED
      BY <3>3
  <2>2. /\ slot' = [slot EXCEPT ![i] = DirectInit(c \in Sixup)]
        /\ peer' = [peer EXCEPT ![i] = c]
        /\ token' = [token EXCEPT ![i] = m.own]
        /\ joined' = [joined EXCEPT ![i] = TRUE]
        /\ toClient' = Fit(toClient, hello)
        /\ UNCHANGED <<code, alias>>
    BY <1>3 DEF TryAcceptClient
  <2>3. toClient' \subseteq ToClient
    BY <2>2, FitType DEF Inv, TypeOK
  <2>4. ~(Cardinality(ClientsWithIp(IpOf[c])) + 1 > MaxClientsPerIp)
    BY <1>3
  <2> HIDE DEF i, refused
  <2>5. Opened(i, c)
    BY <2>1, <2>2, <2>4 DEF Opened
  <2> QED
    BY <1>1, <2>1, <2>2, <2>3, <2>5 DEF Inv, TypeOK, OthersOK, SlotStep
<1> QED
  BY <1>2, <1>3

LEMMA ReceiveNewKind ==
    ASSUME Inv, NEW m \in toServer, NEW refuse \in BOOLEAN, ReceiveNew(m, refuse)
    PROVE  SlotStep /\ OthersOK'
<1> DEFINE six == m.from \in Sixup
           ctrl == m.pkt.ctrl
           replies == CASE ctrl = "CONNECT" -> {"CONNECTACCEPT"}
                        [] ctrl = "TOKEN" /\ six -> {"TOKEN"}
                        [] OTHER -> {}
           hello == FromServer(m.from, m.own, {Bare(r) : r \in replies})
           asks == m.tok /\ ctrl = IF six THEN "CONNECT" ELSE "ACCEPT"
<1>1. m \in ToServer /\ m.from \in Client /\ m.own \in Nat
  BY DEF Inv, TypeOK, ToServer
<1>2. hello \subseteq ToClient
  <2>1. replies \subseteq Control
    BY DEF Control
  <2> HIDE DEF replies
  <2>2. {Bare(r) : r \in replies} \subseteq Packet
    BY <2>1, BareType
  <2> QED
    BY <1>1, <2>2, FromServerType
<1>3. /\ SlotsOf(m.from) = {}
      /\ IF asks
         THEN TryAcceptClient(m, refuse, hello)
         ELSE /\ hello # {} /\ ~refuse
              /\ toClient' = Fit(toClient, hello)
              /\ UNCHANGED slots
      /\ UNCHANGED <<cl, round, toServer>>
  BY DEF ReceiveNew
<1> HIDE DEF hello, asks
<1>4. CASE asks
  BY <1>1, <1>2, <1>3, <1>4, TryAcceptClientKind
<1>5. CASE ~asks
  <2>1. toClient' \subseteq ToClient
    BY <1>2, <1>3, <1>5, FitType DEF Inv, TypeOK
  <2> QED
    BY <1>3, <1>5, <2>1, Untouched DEF Inv, TypeOK, OthersOK, SlotStep, slots
<1> QED
  BY <1>4, <1>5

LEMMA ReceiveInSessionKind ==
    ASSUME Inv, NEW m \in toServer, NEW i \in Slot, NEW hit \in BOOLEAN,
           ReceiveInSession(i, m, hit)
    PROVE  SlotStep /\ OthersOK'
<1> DEFINE s == InSession(i, m)
           c == m.from
           conn == IF s.timeout THEN [s.conn EXCEPT !.timeoutProtected = TRUE] ELSE s.conn
           conns == [slot EXCEPT ![i] = conn]
<1>1. /\ IsMin(i, SlotsOf(c))
      /\ slot' = Overwrite(i, conns, hit)
      /\ token' = [token EXCEPT ![i] = IF Rejoins(m) THEN m.own ELSE @]
      /\ alias' = IF Rejoins(m) THEN Unaliased(i) ELSE alias
      /\ toClient' = Fit(toClient, FromServer(c, token'[i], s.out))
      /\ UNCHANGED <<peer, joined, cl, round, toServer>>
  BY DEF ReceiveInSession
<1>2. m \in ToServer /\ c \in Client /\ m.own \in Nat
  BY DEF Inv, TypeOK, ToServer
<1>3. Alive(slot[i]) /\ slot[i] \in Connection
  BY <1>1, SlotTypes DEF IsMin, SlotsOf
<1>4. s.conn \in Connection /\ s.conn.state # "OFFLINE" /\ s.out \subseteq Packet
  BY <1>2, <1>3, InSessionType
<1> HIDE DEF s
<1>5. conn \in Connection /\ conn.state # "OFFLINE"
  BY <1>4 DEF Connection
<1> HIDE DEF conn
<1>6. conns \in [Slot -> Connection] /\ \A k \in Slot : Older(conns[k], slot[k])
  BY <1>3, <1>5, AgeAlive, Same DEF Inv, TypeOK
<1> HIDE DEF conns
<1>7. Kept
  <2>1. slot' \in [Slot -> Connection] /\ \A k \in Slot : Older(slot'[k], conns[k])
    BY <1>1, <1>6, OverwriteOlder
  <2> QED
    BY <1>1, <1>6, <2>1, OlderTwice DEF Kept
<1>8. token' \in [Slot -> Nat] /\ token'[i] \in Nat
  BY <1>1, <1>2 DEF Inv, TypeOK
<1>9. toClient' \subseteq ToClient
  <2>1. FromServer(c, token'[i], s.out) \subseteq ToClient
    BY <1>2, <1>4, <1>8, FromServerType
  <2> QED
    BY <1>1, <2>1, FitType DEF Inv, TypeOK
<1>10. alias' \subseteq alias
  BY <1>1 DEF Unaliased
<1> QED
  BY <1>1, <1>7, <1>8, <1>9, <1>10 DEF Inv, TypeOK, OthersOK, SlotStep

LEMMA ResumeKind ==
    ASSUME Inv, NEW m \in toServer, NEW i \in Slot, NEW k \in Slot, Resume(i, k, m)
    PROVE  SlotStep /\ OthersOK'
<1> DEFINE s == InSession(i, m)
           Home(q) == IF \E x \in alias : x.slot = i /\ x.seq = q.seq
                      THEN (CHOOSE x \in alias : x.slot = i /\ x.seq = q.seq).home
                      ELSE i
           copied == {[slot |-> k, seq |-> s.conn.buffer[n].seq, home |-> Home(s.conn.buffer[n])] :
                         n \in 1 .. Len(s.conn.buffer)}
           Aliases == [slot : Slot, seq : Sequence, home : Slot]
<1>1. /\ IsMin(i, SlotsOf(m.from))
      /\ IsMin(k, TimedOut(i, m.from))
      /\ TakenOver(i, k, s.conn)
      /\ joined' = [joined EXCEPT ![i] = FALSE]
      /\ alias' = {x \in alias : x.slot \notin {i, k}} \cup copied
      /\ toClient' = Fit(toClient, FromServer(m.from, token[i], s.out))
      /\ UNCHANGED <<cl, round, toServer>>
  BY DEF Resume
<1>2. m \in ToServer /\ m.from \in Client
  BY DEF Inv, TypeOK, ToServer
<1>3. /\ Alive(slot[i]) /\ slot[i] \in Connection /\ slot[k] \in Connection
      /\ peer[i] = m.from /\ token[i] \in Nat
      /\ i # k /\ slot[k].state = "ERROR" /\ joined[k] /\ code[k] = CodeOf[m.from]
  BY <1>1, SlotTypes DEF IsMin, SlotsOf, TimedOut
<1>4. s.conn \in Connection /\ s.out \subseteq Packet
  BY <1>2, <1>3, InSessionType
<1> HIDE DEF s
<1>5. copied \subseteq Aliases
  <2>1. ASSUME NEW q PROVE Home(q) \in Slot
    <3>1. \A x \in alias : x.home \in Slot
      BY DEF Inv, TypeOK
    <3> QED
      BY <3>1
  <2>2. \A n \in 1 .. Len(s.conn.buffer) : s.conn.buffer[n].seq \in Sequence
    <3>1. s.conn.buffer \in Seq(Chunk)
      BY <1>4, Fields
    <3>2. \A n \in 1 .. Len(s.conn.buffer) : s.conn.buffer[n] \in Chunk
      BY <3>1, ElementOfSeq
    <3> QED
      BY <3>2 DEF Chunk
  <2> HIDE DEF Home
  <2> QED
    BY <2>1, <2>2
<1> HIDE DEF copied
<1>6. alias' \subseteq Aliases
  BY <1>1, <1>5 DEF Inv, TypeOK
<1>7. toClient' \subseteq ToClient
  <2>1. FromServer(m.from, token[i], s.out) \subseteq ToClient
    BY <1>2, <1>3, <1>4, FromServerType
  <2> QED
    BY <1>1, <2>1, FitType DEF Inv, TypeOK
<1> DEFINE conn == ResumeConnection(slot[k], s.conn)
<1>8. conn \in Connection /\ conn.state = "ONLINE"
  BY <1>3, <1>4, ResumeType
<1>9. /\ slot' = [slot EXCEPT ![k] = conn, ![i] = ResetConnection]
      /\ peer' = [peer EXCEPT ![k] = peer[i], ![i] = None]
      /\ token' = [token EXCEPT ![k] = token[i], ![i] = 0]
  BY <1>1 DEF TakenOver
<1> HIDE DEF conn
<1>10. Moved(i, k, conn)
  BY <1>1, <1>3, <1>8, <1>9 DEF Moved
<1>11. token' \in [Slot -> Nat]
  BY <1>3, <1>9 DEF Inv, TypeOK
<1> QED
  BY <1>1, <1>6, <1>7, <1>8, <1>10, <1>11 DEF Inv, TypeOK, OthersOK, SlotStep

LEMMA TellKind ==
    ASSUME Inv, NEW i \in Slot, NEW hit \in BOOLEAN, Tell(i, hit)
    PROVE  SlotStep /\ OthersOK'
<1> DEFINE s == Sent(slot[i], NextSeq(slot[i].sequence))
           conns == [slot EXCEPT ![i] = s.conn]
<1>1. /\ joined[i]
      /\ slot' = Overwrite(i, conns, hit)
      /\ toClient' = Fit(toClient, FromServer(peer[i], token[i], s.out))
      /\ UNCHANGED <<peer, token, joined, code, alias, cl, round, toServer>>
  BY DEF Tell, Sent
<1>2. slot[i] \in Connection /\ token[i] \in Nat /\ peer[i] \in Client
  BY <1>1, SlotTypes
<1>3. NextSeq(slot[i].sequence) \in Nat
  BY <1>2, Fields, NextSeqType DEF Sequence
<1>4. Older(s.conn, slot[i]) /\ s.conn \in Connection /\ s.out \subseteq Packet
  BY <1>2, <1>3, SentOlder DEF Older
<1> HIDE DEF s
<1>5. conns \in [Slot -> Connection] /\ \A k \in Slot : Older(conns[k], slot[k])
  BY <1>4, Same DEF Inv, TypeOK
<1> HIDE DEF conns
<1>6. Kept
  <2>1. slot' \in [Slot -> Connection] /\ \A k \in Slot : Older(slot'[k], conns[k])
    BY <1>1, <1>5, OverwriteOlder
  <2> QED
    BY <1>1, <1>5, <2>1, OlderTwice DEF Kept
<1>7. toClient' \subseteq ToClient
  <2>1. FromServer(peer[i], token[i], s.out) \subseteq ToClient
    BY <1>2, <1>4, FromServerType
  <2> QED
    BY <1>1, <2>1, FitType DEF Inv, TypeOK
<1> QED
  BY <1>1, <1>6, <1>7 DEF Inv, TypeOK, OthersOK, SlotStep

LEMMA DropKind ==
    ASSUME Inv, NEW i \in Slot, NEW conn \in Connection, peer[i] \in Client, Drop(i, conn),
           UNCHANGED <<cl, round, toServer>>
    PROVE  SlotStep /\ OthersOK'
<1> DEFINE d == Disconnect(conn)
<1>1. /\ Emptied(i, slot)
      /\ alias' \subseteq alias
      /\ toClient' = Fit(toClient, FromServer(peer[i], token[i], d.out))
  BY DEF Drop, Unaliased
<1>2. Closed(i) /\ token' = [token EXCEPT ![i] = 0]
  BY <1>1 DEF Emptied, Closed
<1>3. toClient' \subseteq ToClient
  <2>1. d.out \subseteq Packet /\ token[i] \in Nat
    BY DisconnectType, SlotTypes DEF Step
  <2> HIDE DEF d
  <2>2. FromServer(peer[i], token[i], d.out) \subseteq ToClient
    BY <2>1, FromServerType
  <2> QED
    BY <1>1, <2>2, FitType DEF Inv, TypeOK
<1> HIDE DEF d
<1> QED
  BY <1>1, <1>2, <1>3 DEF Inv, TypeOK, OthersOK, SlotStep

LEMMA UpdateSlotKind ==
    ASSUME Inv, NEW i \in Slot, NEW t \in Clock, UpdateSlot(i, t)
    PROVE  SlotStep /\ OthersOK'
<1> DEFINE u == Update(slot[i], t)
<1>1. /\ slot[i].state # "OFFLINE"
      /\ IF u.conn.state = "ERROR" /\ ~Parked(u.conn)
         THEN Drop(i, u.conn)
         ELSE /\ slot' = [slot EXCEPT ![i] = u.conn]
              /\ toClient' = Fit(toClient, FromServer(peer[i], token[i], u.out))
              /\ UNCHANGED <<peer, token, joined, code, alias>>
      /\ UNCHANGED <<cl, round, toServer>>
  BY DEF UpdateSlot
<1>2. slot[i] \in Connection /\ token[i] \in Nat /\ peer[i] \in Client
  BY <1>1, SlotTypes
<1>3. Older(u.conn, slot[i]) /\ u.conn \in Connection /\ u.out \subseteq Packet
  BY <1>1, <1>2, UpdateOlder DEF Older
<1> HIDE DEF u
<1>4. CASE u.conn.state = "ERROR" /\ ~Parked(u.conn)
  BY <1>1, <1>2, <1>3, <1>4, DropKind
<1>5. CASE ~(u.conn.state = "ERROR" /\ ~Parked(u.conn))
  <2>1. Kept
    BY <1>1, <1>3, <1>5, KeptOne
  <2>2. FromServer(peer[i], token[i], u.out) \subseteq ToClient
    BY <1>2, <1>3, FromServerType
  <2>3. toClient' \subseteq ToClient
    BY <1>1, <1>5, <2>2, FitType DEF Inv, TypeOK
  <2> QED
    BY <1>1, <1>5, <2>1, <2>3 DEF Inv, TypeOK, OthersOK, SlotStep
<1> QED
  BY <1>4, <1>5

LEMMA KickKind ==
    ASSUME Inv, NEW i \in Slot, Kick(i)
    PROVE  SlotStep /\ OthersOK'
<1>1. joined[i] /\ Drop(i, slot[i]) /\ UNCHANGED <<cl, round, toServer>>
  BY DEF Kick
<1>2. slot[i] \in Connection /\ peer[i] \in Client
  BY <1>1, SlotTypes
<1> QED
  BY <1>1, <1>2, DropKind

\* Every step is one of the four kinds, and keeps the other variables' types.
LEMMA StepKind ==
    ASSUME Inv, [Next]_vars
    PROVE  SlotStep /\ OthersOK'
<1>1. ASSUME NEW m \in toServer, ServerReceive(m)
      PROVE  SlotStep /\ OthersOK'
  BY <1>1, ReceiveNewKind, ReceiveInSessionKind, ResumeKind DEF ServerReceive
<1>2. CASE UNCHANGED vars
  <2>1. UNCHANGED slots /\ UNCHANGED <<cl, round, toServer, toClient>>
    BY <1>2 DEF vars
  <2> QED
    BY <2>1, Untouched DEF Inv, TypeOK, OthersOK, SlotStep, slots
<1>3. ASSUME NEW c \in Client, Connect(c) \/ Say(c) \/ Leave(c)
      PROVE  SlotStep /\ OthersOK'
  BY <1>3, ConnectKind, SayKind, LeaveKind
<1>4. ASSUME NEW c \in Client, NEW e \in Event, UpdateClient(c, Timer(e))
      PROVE  SlotStep /\ OthersOK'
  BY <1>4, TimerType, UpdateClientKind
<1>5. ASSUME NEW i \in Slot, NEW e \in Event, UpdateSlot(i, Timer(e))
      PROVE  SlotStep /\ OthersOK'
  BY <1>5, TimerType, UpdateSlotKind
<1> QED
  BY <1>1, <1>2, <1>3, <1>4, <1>5, ClientReceiveKind, TellKind, KickKind, LoseKind DEF Next

-----------------------------------------------------------------------------
(* Types, and the slots of the upper layer *)

LEMMA InvStep ==
    ASSUME Inv, [Next]_vars
    PROVE  Inv'
<1>1. SlotStep /\ OthersOK'
  BY StepKind
<1> DEFINE SlotsOK == /\ slot \in [Slot -> Connection]
                      /\ peer \in [Slot -> Client \cup {None}]
                      /\ \A i \in Slot : peer[i] = None <=> slot[i].state = "OFFLINE"
                      /\ joined \in [Slot -> BOOLEAN]
                      /\ JoinedIffOpen
<1>2. SlotsOK
  BY DEF Inv, TypeOK
<1>3. ResetConnection \in Connection /\ ResetConnection.state = "OFFLINE"
  BY ResetType DEF ResetConnection
<1>4. ASSUME Kept
      PROVE  SlotsOK'
  BY <1>2, <1>4 DEF Kept, Older, JoinedIffOpen
<1>5. ASSUME NEW i \in Slot, Closed(i)
      PROVE  SlotsOK'
  BY <1>2, <1>3, <1>5 DEF Closed, JoinedIffOpen
<1>6. ASSUME NEW i \in Slot, NEW c \in Client, Opened(i, c)
      PROVE  SlotsOK'
  <2> DEFINE conn == DirectInit(c \in Sixup)
  <2>1. conn \in Connection /\ conn.state = "ONLINE"
    <3> DEFINE six == c \in Sixup
    <3>1. six \in BOOLEAN /\ conn = DirectInit(six)
      OBVIOUS
    <3> HIDE DEF six, conn
    <3> QED
      BY <3>1, DirectInitType
  <2>2. slot' = [slot EXCEPT ![i] = conn] /\ peer' = [peer EXCEPT ![i] = c]
        /\ joined' = [joined EXCEPT ![i] = TRUE]
    BY <1>6 DEF Opened
  <2> HIDE DEF conn
  <2> QED
    BY <1>2, <2>1, <2>2, NetServerAssumption DEF JoinedIffOpen
<1>7. ASSUME NEW i \in Slot, NEW k \in Slot, NEW conn \in Connection, Moved(i, k, conn)
      PROVE  SlotsOK'
  <2>1. i # k /\ joined[k] /\ conn.state = "ONLINE" /\ peer[i] # None /\ peer[i] \in Client
    BY <1>2, <1>7 DEF Moved, Alive
  <2>2. /\ slot' = [slot EXCEPT ![k] = conn, ![i] = ResetConnection]
        /\ peer' = [peer EXCEPT ![k] = peer[i], ![i] = None]
        /\ joined' = [joined EXCEPT ![i] = FALSE]
    BY <1>7 DEF Moved
  <2> QED
    BY <1>2, <1>3, <2>1, <2>2 DEF JoinedIffOpen
<1>8. SlotsOK'
  BY <1>1, <1>4, <1>5, <1>6, <1>7 DEF SlotStep
<1> QED
  BY <1>1, <1>8 DEF Inv, TypeOK, OthersOK

LEMMA InvInit == Init => Inv
<1> SUFFICES ASSUME Init PROVE Inv
  OBVIOUS
<1>1. ResetConnection \in Connection /\ ResetConnection.state = "OFFLINE"
  BY ResetType DEF ResetConnection
<1> QED
  BY <1>1 DEF Init, Inv, TypeOK, JoinedIffOpen

LEMMA InvHolds == Spec => []Inv
BY InvInit, InvStep, PTL DEF Spec

\* Every variable keeps its type, for any number of slots, clients, sessions and
\* datagrams.
THEOREM ServerTypeCorrect == Spec => []TypeOK
BY InvHolds, PTL DEF Inv

\* The upper layer has a client in a slot exactly when the slot is in use: every
\* path that opens, closes or moves a slot tells it (NewClientCallback,
\* DelClientCallback, CServer::SetTimedOut).
THEOREM JoinedIffOpenHolds == Spec => []JoinedIffOpen
BY InvHolds, PTL DEF Inv

\* Only SetTimedOut gives a slot in use to another address, and only one whose
\* connection has died to the client that knows its timeout code.
THEOREM NeverHandedOverHolds == Spec => NeverHandedOver
<1> DEFINE HandOver ==
        \A i \in Slot : joined[i] /\ joined'[i] /\ peer'[i] # peer[i] =>
            slot[i].state = "ERROR" /\ code[i] = CodeOf[peer'[i]]
<1>1. ASSUME Inv, [Next]_vars
      PROVE  HandOver
  <2>1. joined \in [Slot -> BOOLEAN] /\ peer \in [Slot -> Client \cup {None}]
    BY <1>1 DEF Inv, TypeOK
  <2>2. SlotStep
    BY <1>1, StepKind
  <2>3. CASE Kept
    BY <2>3 DEF Kept
  <2>4. ASSUME NEW i \in Slot, Closed(i)
        PROVE  HandOver
    BY <2>1, <2>4 DEF Closed
  <2>5. ASSUME NEW i \in Slot, NEW c \in Client, Opened(i, c)
        PROVE  HandOver
    <3>1. ~joined[i]
      BY <1>1, <2>5, SlotTypes DEF Opened
    <3> QED
      BY <2>1, <2>5, <3>1 DEF Opened
  <2>6. ASSUME NEW i \in Slot, NEW k \in Slot, NEW conn \in Connection, Moved(i, k, conn)
        PROVE  HandOver
    BY <2>1, <2>6 DEF Moved
  <2> QED
    BY <2>2, <2>3, <2>4, <2>5, <2>6 DEF SlotStep
<1>2. ASSUME Inv, [Next]_vars
      PROVE  [HandOver]_vars
  BY <1>1, <1>2
<1> QED
  BY <1>2, InvHolds, PTL DEF Spec, NeverHandedOver

-----------------------------------------------------------------------------
(* One slot per address *)

\* OneSlotPerAddress without counting.
Unique ==
    \A i, k \in Slot : Alive(slot[i]) /\ Alive(slot[k]) /\ peer[i] = peer[k] => i = k

LEMMA UniqueStep ==
    ASSUME Inv, Unique, [Next]_vars
    PROVE  Unique'
<1>1. SlotStep /\ slot \in [Slot -> Connection] /\ peer \in [Slot -> Client \cup {None}]
  BY StepKind DEF Inv, TypeOK
<1>2. ~Alive(ResetConnection)
  BY DEF ResetConnection, Alive
<1>3. CASE Kept
  BY <1>3 DEF Kept, Older, Unique
<1>4. ASSUME NEW i \in Slot, Closed(i)
      PROVE  Unique'
  BY <1>1, <1>2, <1>4 DEF Closed, Unique
<1>5. ASSUME NEW i \in Slot, NEW c \in Client, Opened(i, c)
      PROVE  Unique'
  <2>1. \A k \in Slot : Alive(slot[k]) => peer[k] # c
    BY <1>5 DEF Opened, SlotsOf
  <2>2. \A k \in Slot \ {i} : slot'[k] = slot[k] /\ peer'[k] = peer[k]
    BY <1>1, <1>5 DEF Opened
  <2>3. peer'[i] = c
    BY <1>1, <1>5 DEF Opened
  <2> QED
    BY <2>1, <2>2, <2>3 DEF Unique
<1>6. ASSUME NEW i \in Slot, NEW k \in Slot, NEW conn \in Connection, Moved(i, k, conn)
      PROVE  Unique'
  <2>1. \A j \in Slot \ {i, k} : slot'[j] = slot[j] /\ peer'[j] = peer[j]
    BY <1>1, <1>6 DEF Moved
  <2>2. i # k /\ Alive(slot[i]) /\ peer'[k] = peer[i] /\ ~Alive(slot'[i])
    BY <1>1, <1>2, <1>6 DEF Moved
  <2> QED
    BY <2>1, <2>2 DEF Unique
<1> QED
  BY <1>1, <1>3, <1>4, <1>5, <1>6 DEF SlotStep

LEMMA UniqueCounts ==
    ASSUME Unique
    PROVE  OneSlotPerAddress
<1> SUFFICES ASSUME NEW c \in Client
             PROVE  Cardinality(SlotsOf(c)) <= 1
  BY DEF OneSlotPerAddress
<1>1. CASE SlotsOf(c) = {}
  BY <1>1, FS_EmptySet
<1>2. CASE SlotsOf(c) # {}
  <2>1. PICK i \in Slot : i \in SlotsOf(c)
    BY <1>2 DEF SlotsOf
  <2>2. SlotsOf(c) = {i}
    BY <2>1 DEF SlotsOf, Unique
  <2> QED
    BY <2>2, FS_Singleton
<1> QED
  BY <1>1, <1>2

\* An address never has two live slots, so that GetClientSlot, which takes the
\* first it finds, finds the only one.
THEOREM OneSlotPerAddressHolds == Spec => []OneSlotPerAddress
<1>1. Init => Unique
  BY DEF Init, Unique, Alive, ResetConnection
<1>2. Inv /\ Unique /\ [Next]_vars => Unique'
  BY UniqueStep
<1> QED
  BY <1>1, <1>2, InvHolds, UniqueCounts, PTL DEF Spec

-----------------------------------------------------------------------------
(* The limit per IP *)

LEMMA SlotSets ==
    ASSUME NEW T \in SUBSET Slot
    PROVE  IsFiniteSet(T) /\ Cardinality(T) \in Nat
<1>1. IsFiniteSet(Slot)
  BY NetServerAssumption, FS_Interval DEF Slot
<1> QED
  BY <1>1, FS_Subset, FS_CardinalityType

\* Adding an element adds at most one, swapping one for another nothing.
LEMMA SwapCount ==
    ASSUME NEW T \in SUBSET Slot, NEW i \in T, NEW k \in Slot, NEW R \in SUBSET Slot,
           R \subseteq (T \ {i}) \cup {k}
    PROVE  Cardinality(R) <= Cardinality(T)
<1> DEFINE U == T \ {i}
<1>1. IsFiniteSet(T) /\ Cardinality(T) \in Nat
  BY SlotSets
<1>2. IsFiniteSet(U) /\ Cardinality(U) = Cardinality(T) - 1
  BY <1>1, FS_RemoveElement
<1> HIDE DEF U
<1>3. IsFiniteSet(U \cup {k}) /\ Cardinality(U \cup {k}) <= Cardinality(U) + 1
  <2>1. Cardinality(U) \in Nat
    BY <1>2, FS_CardinalityType
  <2> QED
    BY <1>2, <2>1, FS_AddElement
<1>4. R \subseteq U \cup {k}
  BY DEF U
<1>5. Cardinality(R) <= Cardinality(U \cup {k})
  BY <1>3, <1>4, FS_Subset
<1>6. Cardinality(R) \in Nat /\ Cardinality(U \cup {k}) \in Nat
  BY <1>3, SlotSets, FS_CardinalityType
<1> QED
  BY <1>1, <1>2, <1>3, <1>5, <1>6

LEMMA AddCount ==
    ASSUME NEW T \in SUBSET Slot, NEW i \in Slot, NEW R \in SUBSET Slot, R \subseteq T \cup {i}
    PROVE  Cardinality(R) <= Cardinality(T) + 1
<1>1. IsFiniteSet(T) /\ Cardinality(T) \in Nat /\ Cardinality(R) \in Nat
  BY SlotSets
<1>2. IsFiniteSet(T \cup {i}) /\ Cardinality(T \cup {i}) <= Cardinality(T) + 1
  <2>1. /\ IsFiniteSet(T \cup {i})
        /\ Cardinality(T \cup {i}) =
               IF i \in T THEN Cardinality(T) ELSE Cardinality(T) + 1
    BY <1>1, FS_AddElement, Zenon
  <2> QED
    BY <1>1, <2>1
<1>3. Cardinality(R) <= Cardinality(T \cup {i}) /\ Cardinality(T \cup {i}) \in Nat
  BY <1>2, FS_Subset, FS_CardinalityType
<1> QED
  BY <1>1, <1>2, <1>3

LEMMA SubCount ==
    ASSUME NEW T \in SUBSET Slot, NEW R \in SUBSET T
    PROVE  Cardinality(R) <= Cardinality(T)
BY SlotSets, FS_Subset

\* Slots that count for ip.
CountsFor(ip, i) == peer[i] # None /\ IpOf[peer[i]] = ip /\ Taken(slot[i])

Within(ip) == Cardinality(ClientsWithIp(ip)) <= MaxClientsPerIp

LEMMA ClientsWithIpIs ==
    ASSUME NEW ip
    PROVE  /\ ClientsWithIp(ip) = {i \in Slot : CountsFor(ip, i)}
           /\ ClientsWithIp(ip)' = {i \in Slot : CountsFor(ip, i)'}
           /\ ClientsWithIp(ip) \in SUBSET Slot
           /\ ClientsWithIp(ip)' \in SUBSET Slot
BY DEF ClientsWithIp, CountsFor, Taken

LEMMA WithinStep ==
    ASSUME Inv, [Next]_vars, NEW ip, Within(ip)
    PROVE  Within(ip)'
<1> DEFINE T == ClientsWithIp(ip)
           R == ClientsWithIp(ip)'
           Fewer == \A j \in Slot : CountsFor(ip, j)' => CountsFor(ip, j)
<1>1. /\ SlotStep /\ slot \in [Slot -> Connection] /\ peer \in [Slot -> Client \cup {None}]
      /\ MaxClientsPerIp \in Nat
  BY StepKind, NetServerAssumption DEF Inv, TypeOK
<1>2. /\ T \in SUBSET Slot /\ R \in SUBSET Slot
      /\ \A j \in Slot : (j \in T <=> CountsFor(ip, j)) /\ (j \in R <=> CountsFor(ip, j)')
  BY ClientsWithIpIs
<1>3. Cardinality(T) \in Nat /\ Cardinality(R) \in Nat /\ Cardinality(T) <= MaxClientsPerIp
  BY <1>2, SlotSets DEF Within
<1>4. Within(ip)' <=> Cardinality(R) <= MaxClientsPerIp
  BY DEF Within
<1> HIDE DEF T, R
<1>5. ASSUME Fewer PROVE Within(ip)'
  <2>1. R \subseteq T
    BY <1>2, <1>5
  <2> QED
    BY <1>1, <1>2, <1>3, <1>4, <2>1, SubCount
<1>6. ~Taken(ResetConnection)
  BY DEF Taken, Alive, Parked, ResetConnection
<1>7. CASE Kept
  <2>1. Fewer
    BY <1>7 DEF Kept, Older, CountsFor
  <2> QED
    BY <1>5, <2>1
<1>8. ASSUME NEW i \in Slot, Closed(i) PROVE Within(ip)'
  <2>1. Fewer
    BY <1>1, <1>6, <1>8 DEF Closed, CountsFor
  <2> QED
    BY <1>5, <2>1
<1>9. ASSUME NEW i \in Slot, NEW c \in Client, Opened(i, c) PROVE Within(ip)'
  <2>1. \A j \in Slot \ {i} : CountsFor(ip, j)' => CountsFor(ip, j)
    BY <1>1, <1>9 DEF Opened, CountsFor
  <2>2. CASE ip = IpOf[c]
    <3>1. ~(Cardinality(T) + 1 > MaxClientsPerIp)
      BY <1>9, <2>2 DEF Opened, T
    <3>2. R \subseteq T \cup {i}
      BY <1>2, <2>1
    <3> QED
      BY <1>1, <1>2, <1>3, <1>4, <3>1, <3>2, AddCount
  <2>3. CASE ip # IpOf[c]
    <3>1. ~CountsFor(ip, i)'
      BY <1>1, <1>9, <2>3 DEF Opened, CountsFor
    <3>2. Fewer
      BY <2>1, <3>1
    <3> QED
      BY <1>5, <3>2
  <2> QED
    BY <2>2, <2>3
<1>10. ASSUME NEW i \in Slot, NEW k \in Slot, NEW conn \in Connection, Moved(i, k, conn)
       PROVE  Within(ip)'
  <2>1. \A j \in Slot \ {i, k} : CountsFor(ip, j)' => CountsFor(ip, j)
    BY <1>1, <1>10 DEF Moved, CountsFor
  <2>2. ~CountsFor(ip, i)' /\ peer'[k] = peer[i] /\ i # k /\ Taken(slot[i])
    BY <1>1, <1>6, <1>10 DEF Moved, CountsFor, Taken
  <2>3. CASE CountsFor(ip, i)
    <3>1. i \in T /\ R \subseteq (T \ {i}) \cup {k}
      BY <1>2, <2>1, <2>2, <2>3
    <3> QED
      BY <1>1, <1>2, <1>3, <1>4, <3>1, SwapCount
  <2>4. CASE ~CountsFor(ip, i)
    <3>1. ~CountsFor(ip, k)'
      BY <2>2, <2>4 DEF CountsFor
    <3>2. Fewer
      BY <2>1, <2>2, <3>1
    <3> QED
      BY <1>5, <3>2
  <2> QED
    BY <2>3, <2>4
<1> QED
  BY <1>1, <1>7, <1>8, <1>9, <1>10 DEF SlotStep

\* sv_max_clients_per_ip is never exceeded, counting the slots that wait to be
\* resumed; a takeover to another IP moves the place with it.
THEOREM PerIpLimitHolds == Spec => []PerIpLimit
<1> DEFINE Limit == \A c \in Client : Within(IpOf[c])
<1>1. Init => Limit
  <2> SUFFICES ASSUME Init, NEW c \in Client PROVE Within(IpOf[c])
    OBVIOUS
  <2>1. ClientsWithIp(IpOf[c]) = {}
    BY DEF Init, ClientsWithIp
  <2> QED
    BY <2>1, FS_EmptySet, NetServerAssumption DEF Within
<1>2. Inv /\ Limit /\ [Next]_vars => Limit'
  <2> SUFFICES ASSUME Inv, Limit, [Next]_vars, NEW c \in Client PROVE Within(IpOf[c])'
    OBVIOUS
  <2> QED
    BY WithinStep
<1>3. Limit => PerIpLimit
  BY DEF Within, ClientsWithIp, PerIpLimit
<1> QED
  BY <1>1, <1>2, <1>3, InvHolds, PTL DEF Spec

=============================================================================
