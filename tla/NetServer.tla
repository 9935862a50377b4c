----------------------------- MODULE NetServer -----------------------------
(***************************************************************************)
(* CNetServer (engine/shared/network_server.cpp) with its client slots, and *)
(* the CNetClients that connect to it: the 0.6 and 0.7 handshakes,          *)
(* reconnects from an address that still has a slot, refusals, kicks,       *)
(* timeouts, timeout protection and the takeover of a timed-out slot        *)
(* (CServer::SetTimedOut).  Datagrams are lost, duplicated and reordered.   *)
(*                                                                          *)
(* A client keeps its address when it connects again; round counts its      *)
(* sessions and is its token in the 0.7 protocol.  The server's token for   *)
(* an address never changes, so a datagram only says whether it has it.     *)
(***************************************************************************)
EXTENDS NetConnection

CONSTANTS
    Client,           \* addresses of clients
    Sixup,            \* those that speak the 0.7 protocol
    IpOf,             \* the IP of each address
    CodeOf,           \* the timeout code each client sends
    None,             \* no address, no code
    NumSlots,         \* MaxClients()
    MaxClientsPerIp,  \* m_MaxClientsPerIp
    MaxRounds,        \* bound: how often each client connects
    MaxSay,           \* bound: vital chunks each client sends in a session
    MaxTell,          \* bound: vital chunks the server sends in a session
    MaxNet            \* bound: datagrams in flight in each direction

\* Packets hold one chunk here: the interleaving of the chunks of a packet is
\* the subject of NetLink.
ASSUME NetServerAssumption ==
    /\ Sixup \subseteq Client
    /\ None \notin Client \cup {CodeOf[c] : c \in Client}
    /\ NumSlots \in Nat \ {0} /\ MaxClientsPerIp \in Nat \ {0}
    /\ MaxChunks = 1

Slot == 1 .. NumSlots

VARIABLES
    slot,      \* m_aSlots[i].m_Connection
    peer,      \* m_PeerAddr of each slot
    token,     \* m_SecurityToken of a 0.7 slot; for 0.6, history: the peer's round
    joined,    \* m_aClients[i].m_State # STATE_EMPTY
    code,      \* m_aTimeoutCode of the player in each slot
    alias,     \* m_pData of inherited resend entries: whose buffer they point into
    cl,        \* CNetClient::m_Connection of each client
    round,     \* which session of its own each client is in
    toServer,  \* datagrams on their way to the server
    toClient   \* datagrams on their way to clients

slots == <<slot, peer, token, joined, code, alias>>

vars == <<slots, cl, round, toServer, toClient>>

ToServer == [from : Client, tok : BOOLEAN, own : Nat, pkt : Packet]

ToClient == [to : Client, tok : Nat, pkt : Packet]

TypeOK ==
    /\ slot \in [Slot -> Connection]
    /\ peer \in [Slot -> Client \cup {None}]
    /\ \A i \in Slot : peer[i] = None <=> slot[i].state = "OFFLINE"
    /\ token \in [Slot -> Nat]
    /\ joined \in [Slot -> BOOLEAN]
    /\ alias \subseteq [slot : Slot, seq : Sequence, home : Slot]
    /\ cl \in [Client -> Connection]
    /\ round \in [Client -> Nat]
    /\ toServer \subseteq ToServer
    /\ toClient \subseteq ToClient

Init ==
    /\ slot = [i \in Slot |-> ResetConnection]
    /\ peer = [i \in Slot |-> None]
    /\ token = [i \in Slot |-> 0]
    /\ joined = [i \in Slot |-> FALSE]
    /\ code = [i \in Slot |-> None]
    /\ alias = {}
    /\ cl = [c \in Client |-> ResetConnection]
    /\ round = [c \in Client |-> 0]
    /\ toServer = {}
    /\ toClient = {}

-----------------------------------------------------------------------------
(* The network: when more than MaxNet datagrams would be in flight in one      *)
(* direction, those that were in flight before are lost.                         *)

Fit(old, new) == IF Cardinality(old \cup new) <= MaxNet THEN old \cup new ELSE new

\* A client knows the server's token from TOKEN (0.7) or CONNECTACCEPT (0.6) on.
HasToken(c) == c.state = "ONLINE" \/ (c.sixup /\ c.state = "CONNECT")

FromClient(c, conn, own, out) ==
    {[from |-> c, tok |-> HasToken(conn), own |-> own, pkt |-> p] : p \in out}

FromServer(c, tok, out) == {[to |-> c, tok |-> tok, pkt |-> p] : p \in out}

Bare(ctrl) == [ctrl |-> ctrl, ack |-> 0, resend |-> FALSE, chunks |-> <<>>]

LoseToServer ==
    /\ \E m \in toServer : toServer' = toServer \ {m}
    /\ UNCHANGED <<slots, cl, round, toClient>>

LoseToClient ==
    /\ \E m \in toClient : toClient' = toClient \ {m}
    /\ UNCHANGED <<slots, cl, round, toServer>>

-----------------------------------------------------------------------------
(* Update finds that nothing has happened, that everything is due (resend,      *)
(* flush or CONNECT, keepalive), or that a connection or its protection has      *)
(* expired.  NetLink takes every combination of these.                           *)

Event == {"nothing", "due", "lost", "weak", "over"}

Timer(event) ==
    [lost |-> event = "lost", weak |-> event = "weak", over |-> event = "over",
     due |-> event = "due", idle |-> event = "due", quiet |-> event = "due"]

-----------------------------------------------------------------------------
(* The client *)

\* c's connection becomes conn and sends out; own is the client token that its
\* control messages carry.
ClientStep(c, conn, own, out) ==
    /\ cl' = [cl EXCEPT ![c] = conn]
    /\ toServer' = Fit(toServer, out)
    /\ UNCHANGED <<slots, toClient>>

\* CNetClient::Connect and Connect7.  The first CONNECT or TOKEN goes out.
Connect(c) ==
    LET six == c \in Sixup
        n == round[c] + 1
        conn == [ResetConnection EXCEPT !.state = IF six THEN "WANT_TOKEN" ELSE "CONNECT",
                                        !.sixup = six]
    IN  /\ cl[c].state = "OFFLINE"
        /\ n <= MaxRounds[c]
        /\ round' = [round EXCEPT ![c] = n]
        /\ ClientStep(c, conn, n, FromClient(c, conn, n,
                          {Bare(IF six THEN "TOKEN" ELSE "CONNECT")}))

\* CNetClient::Recv of a datagram that Feed does not reject for its token.
ClientReceive(m) ==
    LET c == m.to
        f == Feed(cl[c], m.pkt)
        u == UnpackNextChunk(f.conn, IF f.ok THEN m.pkt.chunks ELSE <<>>)
    IN  /\ Alive(cl[c])
        /\ c \in Sixup => m.tok = round[c]
        /\ ClientStep(c, u.conn, round[c], FromClient(c, f.conn, round[c], f.out))
        /\ UNCHANGED round

\* CNetClient::Send of /timeout with NETSENDFLAG_VITAL and FLUSH: the one
\* message whose handler changes connections.
TimeoutCode == 1

Say(c) ==
    LET q == QueueChunk(cl[c], TRUE, TimeoutCode)
        f == Flush(q.conn)
    IN  /\ cl[c].state = "ONLINE"
        /\ cl[c].sequence < MaxSay[c]
        /\ ClientStep(c, f.conn, round[c], FromClient(c, f.conn, round[c], q.out \cup f.out))
        /\ UNCHANGED round

\* CNetClient::Update.  SendConnect puts SECURITY_TOKEN_MAGIC where the server
\* looks for the token of a 0.7 client.
UpdateClient(c, t) ==
    LET u == Update(cl[c], t)
        d == IF u.conn.state = "ERROR" THEN Disconnect(u.conn) ELSE [conn |-> u.conn, out |-> {}]
        own == IF c \in Sixup /\ cl[c].state = "CONNECT" THEN 0 ELSE round[c]
    IN  /\ cl[c].state # "OFFLINE"
        /\ ClientStep(c, d.conn, own, FromClient(c, u.conn, own, u.out \cup d.out))
        /\ UNCHANGED round

\* CNetClient::Disconnect
Leave(c) ==
    LET d == Disconnect(cl[c])
    IN  /\ cl[c].state # "OFFLINE"
        /\ ClientStep(c, d.conn, round[c], FromClient(c, cl[c], round[c], d.out))
        /\ UNCHANGED round

-----------------------------------------------------------------------------
(* The server's helpers *)

\* GetClientSlot and ClientExists
SlotsOf(c) == {i \in Slot : Alive(slot[i]) /\ peer[i] = c}

\* Loops over the slots stop at the first one that fits.
IsMin(i, S) == i \in S /\ \A k \in S : i <= k

\* Mutant: the end of the protection is not looked at.
ParkedForever(conn) == conn.state = "ERROR" /\ conn.timeoutProtected

\* A slot in ERROR that Update has not dropped because it may be resumed.
Parked(conn) == conn.state = "ERROR" /\ conn.timeoutProtected /\ conn.timeoutSituation

\* Mutant: slots that may be resumed are not counted.
LiveClientsWithIp(ip) ==
    {i \in Slot : peer[i] # None /\ IpOf[peer[i]] = ip /\ Alive(slot[i])}

\* NumClientsWithAddr
ClientsWithIp(ip) ==
    {i \in Slot : /\ peer[i] # None /\ IpOf[peer[i]] = ip
                  /\ Alive(slot[i]) \/ Parked(slot[i])}

\* Mutant: the upper layer is not told.
EmptiedSilently(i, conns) ==
    /\ slot' = [conns EXCEPT ![i] = ResetConnection]
    /\ peer' = [peer EXCEPT ![i] = None]
    /\ token' = [token EXCEPT ![i] = 0]
    /\ code' = [code EXCEPT ![i] = None]
    /\ UNCHANGED joined

\* Slot i is closed: DelClientCallback and CNetConnection::Reset.
Emptied(i, conns) ==
    /\ slot' = [conns EXCEPT ![i] = ResetConnection]
    /\ peer' = [peer EXCEPT ![i] = None]
    /\ token' = [token EXCEPT ![i] = 0]
    /\ joined' = [joined EXCEPT ![i] = FALSE]
    /\ code' = [code EXCEPT ![i] = None]

Unaliased(i) == {x \in alias : x.slot # i}

\* CNetServer::Drop
Drop(i, conn) ==
    /\ Emptied(i, slot)
    /\ alias' = Unaliased(i)
    /\ toClient' = Fit(toClient, FromServer(peer[i], token[i], Disconnect(conn).out))

\* Another slot still points into the buffer of slot i.
Borrowed(i) == \E x \in alias : x.home = i

\* A payload stored in the buffer of slot i may land where an entry that slot
\* k inherited still points to (hit).
Overwrite(i, conns, hit) ==
    [k \in Slot |->
        LET Lost(q) == hit /\ [slot |-> k, seq |-> q.seq, home |-> i] \in alias
        IN  [conns[k] EXCEPT !.buffer =
                [n \in 1 .. Len(@) |-> IF Lost(@[n]) THEN [@[n] EXCEPT !.data = 0] ELSE @[n]]]]

-----------------------------------------------------------------------------
(* CNetServer::Recv *)

\* TryAcceptClient.  refuse stands for sv_sixup and Connlimit.
TryAcceptClient(m, refuse, hello) ==
    LET c == m.from
        empty == {i \in Slot : slot[i].state = "OFFLINE"}
        i == CHOOSE k \in empty : IsMin(k, empty)
    IN  IF refuse \/ Cardinality(ClientsWithIp(IpOf[c])) + 1 > MaxClientsPerIp \/ empty = {}
        THEN /\ toClient' = Fit(toClient, hello \cup FromServer(c, m.own, {Bare("CLOSE")}))
             /\ UNCHANGED slots
        ELSE /\ slot' = [slot EXCEPT ![i] = DirectInit(c \in Sixup)]
             /\ peer' = [peer EXCEPT ![i] = c]
             /\ token' = [token EXCEPT ![i] = m.own]
             /\ joined' = [joined EXCEPT ![i] = TRUE]
             /\ toClient' = Fit(toClient, hello)
             /\ UNCHANGED <<code, alias>>

\* A datagram from an address without a slot: OnTokenCtrlMsg for 0.6,
\* OnSixupCtrlMsg for 0.7.
ReceiveNew(m, refuse) ==
    LET six == m.from \in Sixup
        ctrl == m.pkt.ctrl
        hello == FromServer(m.from, m.own,
                     {Bare(r) : r \in CASE ctrl = "CONNECT" -> {"CONNECTACCEPT"}
                                        [] ctrl = "TOKEN" /\ six -> {"TOKEN"}
                                        [] OTHER -> {}})
        asks == m.tok /\ ctrl = IF six THEN "CONNECT" ELSE "ACCEPT"
    IN  /\ SlotsOf(m.from) = {}
        /\ IF asks
           THEN TryAcceptClient(m, refuse, hello)
           ELSE /\ hello # {} /\ ~refuse
                /\ toClient' = Fit(toClient, hello)
                /\ UNCHANGED slots
        /\ UNCHANGED <<cl, round, toServer>>

\* ClientRejoinCallback: the map is announced in a vital chunk.
SendMap(conn) ==
    LET q == QueueChunk(conn, TRUE, NextSeq(conn.sequence))
        f == Flush(q.conn)
    IN  [conn |-> f.conn, out |-> q.out \cup f.out]

\* OnConnCtrlMsg: an ACCEPT with the token resets the connection of slot i.
Rejoins(m) == m.pkt.ctrl = "ACCEPT" /\ m.tok

\* What Recv does with a datagram for slot i, up to the handler of its chunk.
InSession(i, m) ==
    LET re == IF Rejoins(m) THEN SendMap(RejoinReset(slot[i])) ELSE [conn |-> slot[i], out |-> {}]
        f == IF m.tok
             THEN Feed(re.conn, m.pkt)
             ELSE [ok |-> FALSE, conn |-> re.conn, out |-> {}]
        u == UnpackNextChunk(f.conn, IF f.ok THEN m.pkt.chunks ELSE <<>>)
        hello == IF m.pkt.ctrl = "CONNECT" /\ m.from \notin Sixup THEN {Bare("CONNECTACCEPT")} ELSE {}
    IN  [conn |-> u.conn,
         out |-> hello \cup re.out \cup f.out,
         timeout |-> u.got /\ u.chunk.data = TimeoutCode]

\* Mutant: a slot with the right code is taken over while it is alive.
SameCode(i, c) == {k \in Slot \ {i} : joined[k] /\ code[k] = CodeOf[c]}

\* The slots ConTimeout finds for the code of c, seen from slot i.
TimedOut(i, c) ==
    {k \in Slot \ {i} : joined[k] /\ code[k] = CodeOf[c] /\ slot[k].state = "ERROR"}

\* A datagram for slot i.  /timeout protects the slot if there is nothing to
\* take over.
ReceiveInSession(i, m, hit) ==
    LET s == InSession(i, m)
        c == m.from
        conn == IF s.timeout THEN [s.conn EXCEPT !.timeoutProtected = TRUE] ELSE s.conn
    IN  /\ IsMin(i, SlotsOf(c))
        /\ ~(s.timeout /\ c \notin Sixup /\ TimedOut(i, c) # {})
        /\ hit => Rejoins(m) /\ Borrowed(i)
        /\ slot' = Overwrite(i, [slot EXCEPT ![i] = conn], hit)
        /\ code' = [code EXCEPT ![i] = IF s.timeout THEN CodeOf[c] ELSE @]
        /\ token' = [token EXCEPT ![i] = IF Rejoins(m) THEN m.own ELSE @]
        /\ alias' = IF Rejoins(m) THEN Unaliased(i) ELSE alias
        /\ toClient' = Fit(toClient, FromServer(c, token'[i], s.out))
        /\ UNCHANGED <<peer, joined, cl, round, toServer>>

\* Mutant: the slot the newcomer came in by is not reset.
TakenOverTwice(i, k, conn) ==
    /\ slot' = [slot EXCEPT ![k] = ResumeConnection(slot[k], conn), ![i] = conn]
    /\ peer' = [peer EXCEPT ![k] = peer[i]]
    /\ token' = [token EXCEPT ![k] = token[i]]

\* CNetServer::ResumeOldConnection
TakenOver(i, k, conn) ==
    /\ slot' = [slot EXCEPT ![k] = ResumeConnection(slot[k], conn), ![i] = ResetConnection]
    /\ peer' = [peer EXCEPT ![k] = peer[i], ![i] = None]
    /\ token' = [token EXCEPT ![k] = token[i], ![i] = 0]

\* CServer::SetTimedOut from ConTimeout: the timed-out slot k takes over the
\* connection of slot i, and slot i is emptied.  The copied resend entries still
\* point to their payload in the buffer of slot i.
Resume(i, k, m) ==
    LET s == InSession(i, m)
        Home(q) == IF \E x \in alias : x.slot = i /\ x.seq = q.seq
                   THEN (CHOOSE x \in alias : x.slot = i /\ x.seq = q.seq).home
                   ELSE i
        copied == {[slot |-> k, seq |-> s.conn.buffer[n].seq, home |-> Home(s.conn.buffer[n])] :
                      n \in 1 .. Len(s.conn.buffer)}
    IN  /\ IsMin(i, SlotsOf(m.from))
        /\ s.timeout
        /\ m.from \notin Sixup
        /\ IsMin(k, TimedOut(i, m.from))
        /\ TakenOver(i, k, s.conn)
        /\ joined' = [joined EXCEPT ![i] = FALSE]
        /\ code' = [code EXCEPT ![i] = None]
        /\ alias' = {x \in alias : x.slot \notin {i, k}} \cup copied
        /\ toClient' = Fit(toClient, FromServer(m.from, token[i], s.out))
        /\ UNCHANGED <<cl, round, toServer>>

ServerReceive(m) ==
    \/ \E refuse \in BOOLEAN : ReceiveNew(m, refuse)
    \/ \E i \in Slot, hit \in BOOLEAN : ReceiveInSession(i, m, hit)
    \/ \E i, k \in Slot : Resume(i, k, m)

-----------------------------------------------------------------------------
(* The server's other entry points *)

\* CNetServer::Send of a vital chunk with FLUSH.
Tell(i, hit) ==
    LET q == QueueChunk(slot[i], TRUE, NextSeq(slot[i].sequence))
        f == IF q.saved THEN Flush(q.conn) ELSE [conn |-> q.conn, out |-> {}]
        conns == [slot EXCEPT ![i] = f.conn]
    IN  /\ joined[i]
        /\ slot[i].sequence < MaxTell
        /\ hit => q.saved /\ Borrowed(i)
        /\ slot' = Overwrite(i, conns, hit)
        /\ toClient' = Fit(toClient, FromServer(peer[i], token[i], q.out \cup f.out))
        /\ UNCHANGED <<peer, token, joined, code, alias, cl, round, toServer>>

\* CNetServer::Update, slot i.
UpdateSlot(i, t) ==
    LET u == Update(slot[i], t)
    IN  /\ slot[i].state # "OFFLINE"
        /\ IF u.conn.state = "ERROR" /\ ~Parked(u.conn)
           THEN Drop(i, u.conn)
           ELSE /\ slot' = [slot EXCEPT ![i] = u.conn]
                /\ toClient' = Fit(toClient, FromServer(peer[i], token[i], u.out))
                /\ UNCHANGED <<peer, token, joined, code, alias>>
        /\ UNCHANGED <<cl, round, toServer>>

\* CNetServer::Drop, by a kick, a ban or a handler.
Kick(i) ==
    /\ joined[i]
    /\ Drop(i, slot[i])
    /\ UNCHANGED <<cl, round, toServer>>

Next ==
    \/ \E c \in Client : Connect(c) \/ Say(c) \/ Leave(c)
    \/ \E c \in Client, e \in Event : UpdateClient(c, Timer(e))
    \/ \E m \in toClient : ClientReceive(m)
    \/ \E m \in toServer : ServerReceive(m)
    \/ \E i \in Slot, hit \in BOOLEAN : Tell(i, hit)
    \/ \E i \in Slot, e \in Event : UpdateSlot(i, Timer(e))
    \/ \E i \in Slot : Kick(i)
    \/ LoseToServer \/ LoseToClient

Spec == Init /\ [][Next]_vars

-----------------------------------------------------------------------------
(* Safety *)

\* An address never has two live slots: GetClientSlot, which takes the first,
\* could only feed one of them (TryAcceptClient, Recv, ResumeOldConnection).
OneSlotPerAddress == \A c \in Client : Cardinality(SlotsOf(c)) <= 1

\* sv_max_clients_per_ip holds for live and for resumable slots together, also
\* when a slot moves to another address by a takeover.
PerIpLimit ==
    \A c \in Client :
        Cardinality({i \in Slot : /\ peer[i] # None /\ IpOf[peer[i]] = IpOf[c]
                                  /\ Alive(slot[i]) \/ Parked(slot[i])}) <= MaxClientsPerIp

\* The upper layer and the network agree on which slots are taken: no client
\* is left behind without a connection, none is forgotten on a takeover.
JoinedIffOpen == \A i \in Slot : joined[i] <=> slot[i].state # "OFFLINE"

\* A slot in use only passes to another address when its connection has died
\* and the newcomer knows its timeout code; a live player is never replaced.
NeverHandedOver ==
    [][\A i \in Slot : joined[i] /\ joined'[i] /\ peer'[i] # peer[i] =>
          slot[i].state = "ERROR" /\ code[i] = CodeOf[peer'[i]]]_vars

-----------------------------------------------------------------------------
(* Liveness *)

\* Nothing that Feed accepts comes from the client any more, or from the server.
SilentClient(i) ==
    ~HasToken(cl[peer[i]]) /\ \A m \in toServer : m.from # peer[i] \/ ~m.tok

SilentServer(c) ==
    SlotsOf(c) = {} /\ \A m \in toClient : m.to # c

Is(m, address, c, ctrl) == address = c /\ m.pkt.ctrl = ctrl

\* The main loops of both programs keep calling Update.  No datagram stays in
\* flight for ever, and one that is sent again and again arrives.  Who hears
\* nothing for conn_timeout notices it, and so does Update when
\* conn_timeout_protection is over.
Fairness ==
    /\ WF_vars(LoseToServer)
    /\ WF_vars(LoseToClient)
    /\ \A c \in Client :
          /\ WF_vars(UpdateClient(c, Timer("due")))
          /\ WF_vars(SilentServer(c) /\ cl[c].state # "CONNECT" /\ UpdateClient(c, Timer("lost")))
          /\ SF_vars(\E m \in toServer : Is(m, m.from, c, "CONNECT") /\ ServerReceive(m))
          /\ SF_vars(\E m \in toClient : Is(m, m.to, c, "CONNECTACCEPT") /\ ClientReceive(m))
    /\ \A i \in Slot :
          /\ WF_vars(peer[i] # None /\ SilentClient(i) /\ UpdateSlot(i, Timer("lost")))
          /\ WF_vars(slot[i].state = "ERROR" /\ UpdateSlot(i, Timer("over")))

FairSpec == Spec /\ Fairness

\* A 0.6 client that goes on trying to connect gets an answer: the server
\* answers each new CONNECT, also when the client still has a slot.  (A 0.7 client
\* may not: what it repeats is a CONNECT without its token.)
ConnectResolves ==
    \A c \in Client \ Sixup : cl[c].state = "CONNECT" ~> cl[c].state # "CONNECT"

\* The slot of a client that is gone, however it went (CLOSE lost, ACCEPT
\* delivered after the end), is given back.
SlotsFreed ==
    \A i \in Slot : \A c \in Client :
        joined[i] /\ peer[i] = c /\ cl[c].state = "OFFLINE" ~>
            ~joined[i] \/ peer[i] # c \/ cl[c].state # "OFFLINE"

\* A client that believes to be online while the server has no slot for it (its
\* ACCEPT was lost, it was refused or dropped) gets a slot or notices.
HalfOpenEnds ==
    \A c \in Client : cl[c].state = "ONLINE" /\ SlotsOf(c) = {} ~>
        SlotsOf(c) # {} \/ cl[c].state # "ONLINE"

=============================================================================
