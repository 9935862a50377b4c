----------------------------- MODULE MapChange -----------------------------
(***************************************************************************)
(* How a 0.6 client gets into the game: CLIENTVER and INFO, the map and    *)
(* its download (over HTTP first, then from the server), READY,            *)
(* CON_READY, START_INFO, READY_TO_ENTER, ENTERGAME, two snapshots; and    *)
(* how a new map on the server, or a client that comes back on the same    *)
(* address, starts all this again in the middle.                           *)
(*                                                                         *)
(* All messages here are vital: the session is two reliable FIFO channels, *)
(* which NetLink implements (ReliableLink).  Snapshots, those of the       *)
(* module of that name, are not: one may overtake what is in the channel,  *)
(* or come when the game it is of has long ended.                          *)
(***************************************************************************)
EXTENDS Integers, Sequences, FiniteSets

CONSTANTS
    Map,       \* the maps
    NoMap,
    NumChunks, \* the size of each map in chunks
    Window,    \* sv_map_window
    MaxLoads,  \* bound: how often the server loads a map while it runs
    MaxRejoin  \* bound: times the client comes back

ASSUME MapChangeAssumption ==
    /\ NoMap \notin Map
    /\ NumChunks \in Nat \ {0} /\ Window \in Nat
    /\ MaxLoads \in Nat /\ MaxRejoin \in Nat

VARIABLES
    server,   \* the loaded map, and the CClient and CPlayer of the slot;
              \* history: whether there has been a game, and so snapshots
    client,   \* the CClient
    toClient, \* vital messages, oldest first
    toServer,
    loads,    \* how often the server has loaded a map
    rejoins,  \* how often the client has come back
    confused  \* history: the server has taken a message for the wrong map, or a
              \* client that has come back for the one before

vars == <<server, client, toClient, toServer, loads, rejoins, confused>>

Chunk == 0 .. NumChunks - 1

States == <<"PREAUTH", "AUTH", "CONNECTING", "READY", "INGAME">>

Stage(s) == CHOOSE i \in 1 .. Len(States) : States[i] = s

\* turn says which MAP_CHANGE the message is about; the code sends no such number.
ToClient ==
    [type : {"MAP_CHANGE"}, map : Map, turn : Nat]
        \cup [type : {"MAP_DATA"}, map : Map, chunk : Chunk]
        \cup [type : {"CON_READY", "READY_TO_ENTER"}]

ToServer ==
    [type : {"CLIENTVER", "INFO", "READY", "START_INFO", "ENTERGAME"}, turn : Nat]
        \cup [type : {"REQUEST_MAP_DATA"}, chunk : Chunk, turn : Nat]

TypeOK ==
    /\ server \in [turn : Nat, map : Map, state : {States[i] : i \in 1 .. Len(States)},
                   nextMapChunk : Nat, isReady : BOOLEAN, played : BOOLEAN]
    /\ client \in [state : {"LOADING", "ONLINE"}, map : Map \cup {NoMap}, disk : SUBSET Map,
                   turn : Nat, wanted : Map \cup {NoMap}, via : {"none", "http", "server"},
                   chunk : Chunk, received : 0 .. 2]
    /\ client.via = "none" <=> client.wanted = NoMap
    /\ toClient \in Seq(ToClient) /\ toServer \in Seq(ToServer)
    /\ loads \in 0 .. MaxLoads /\ rejoins \in 0 .. MaxRejoin /\ confused \in BOOLEAN

\* A client process that has connected and sent its info.
Fresh(disk) ==
    [state |-> "LOADING", map |-> NoMap, disk |-> disk, turn |-> 0, wanted |-> NoMap,
     via |-> "none", chunk |-> 0, received |-> 0]

Hello == <<[type |-> "CLIENTVER", turn |-> 0], [type |-> "INFO", turn |-> 0]>>

\* NewClientCallback.
Init ==
    /\ server \in [turn : {0}, map : Map, state : {"PREAUTH"}, nextMapChunk : {0}, isReady : {FALSE},
                   played : {FALSE}]
    /\ client \in {Fresh(disk) : disk \in SUBSET Map}
    /\ toClient = <<>> /\ toServer = Hello
    /\ loads = 0 /\ rejoins = 0 /\ confused = FALSE

-----------------------------------------------------------------------------
(* The server *)

\* CServer::SendMap: m_NextMapChunk, and the message.
MapSent(s) == [s EXCEPT !.nextMapChunk = 0, !.turn = @ + 1]

MapMessage(s) == <<[type |-> "MAP_CHANGE", map |-> s.map, turn |-> s.turn + 1]>>

\* Mutant: the client stays in the game.
StillThere(s) ==
    [MapSent(s) EXCEPT !.state = IF Stage(@) > Stage("CONNECTING") THEN @ ELSE "CONNECTING"]

\* The client has to get ready for the map.
Restarted(s) == [MapSent(s) EXCEPT !.state = "CONNECTING"]

\* CServer::SendMapData of each chunk from first to last.  Those past the end are
\* dropped (an empty one at the very end would be, by the client).
MapData(first, last) ==
    [i \in 1 .. Cardinality(Chunk \cap first .. last) |->
        [type |-> "MAP_DATA", map |-> server.map, chunk |-> first + i - 1]]

\* The oldest message is of the given type.  It is stale if the server has sent a
\* map since the client sent it.
Handles(type) == toServer # <<>> /\ Head(toServer).type = type

Stale == Head(toServer).turn # server.turn

\* What a handler makes of the slot and says with SendMsg.
Answer(s, msgs, misled) ==
    /\ server' = s
    /\ toServer' = Tail(toServer)
    /\ toClient' = toClient \o msgs
    /\ confused' = (confused \/ misled)
    /\ UNCHANGED <<client, loads, rejoins>>

HandleClientVer ==
    /\ Handles("CLIENTVER")
    /\ Answer(IF server.state = "PREAUTH" THEN [server EXCEPT !.state = "AUTH"] ELSE server,
              <<>>, FALSE)

HandleInfo ==
    /\ Handles("INFO")
    /\ IF Stage(server.state) <= Stage("AUTH")
       THEN Answer(Restarted(server), MapMessage(server), FALSE)
       ELSE Answer(server, <<>>, FALSE)

\* Mutants: every request brings a window; the first brings only what is behind it.
WindowEachTime(chunk) ==
    LET next == server.nextMapChunk IN MapData(next, Window + next)
BehindTheWindow(chunk) ==
    LET next == Window + server.nextMapChunk IN MapData(next, next)

\* With sv_fast_download the first request brings the window, and each one the
\* chunk behind it.
Ahead(chunk) ==
    LET next == Window + server.nextMapChunk
    IN  (IF chunk = 0 THEN MapData(0, Window - 1) ELSE <<>>) \o MapData(next, next)

HandleRequestMapData ==
    /\ Handles("REQUEST_MAP_DATA")
    /\ LET chunk == Head(toServer).chunk
       IN  IF Stage(server.state) < Stage("CONNECTING") THEN Answer(server, <<>>, FALSE)
           ELSE IF chunk = server.nextMapChunk
                THEN Answer([server EXCEPT !.nextMapChunk = @ + 1], Ahead(chunk), Stale)
                ELSE Answer(server, MapData(chunk, chunk), FALSE)

\* OnNetMsgReady; OnClientConnected makes a new CPlayer.
HandleReady ==
    /\ Handles("READY")
    /\ IF server.state = "CONNECTING"
       THEN Answer([server EXCEPT !.state = "READY", !.isReady = FALSE],
                   <<[type |-> "CON_READY"]>>, Stale)
       ELSE Answer(server, <<[type |-> "CON_READY"]>>, FALSE)

\* CGameContext::OnMessage and OnStartInfoNetMessage.
HandleStartInfo ==
    /\ Handles("START_INFO")
    /\ IF Stage(server.state) >= Stage("READY") /\ ~server.isReady
       THEN Answer([server EXCEPT !.isReady = TRUE], <<[type |-> "READY_TO_ENTER"]>>, FALSE)
       ELSE Answer(server, <<>>, FALSE)

\* OnNetMsgEnterGame.
HandleEnterGame ==
    /\ Handles("ENTERGAME")
    /\ Answer(IF server.state = "READY" /\ server.isReady
              THEN [server EXCEPT !.state = "INGAME", !.played = TRUE] ELSE server, <<>>, FALSE)

\* The main loop loads a map, the same or another.
LoadMap(map) ==
    /\ loads < MaxLoads
    /\ loads' = loads + 1
    /\ LET s == [server EXCEPT !.map = map, !.isReady = FALSE]
       IN  IF Stage(server.state) <= Stage("AUTH")
           THEN server' = s /\ UNCHANGED toClient
           ELSE /\ server' = Restarted(s)
                /\ toClient' = toClient \o MapMessage(s)
    /\ UNCHANGED <<client, toServer, rejoins, confused>>

\* OnConnCtrlMsg: a client process that starts again on the same address, with
\* ClientRejoinCallback.  The state of the slot stays.
Rejoin ==
    /\ rejoins < MaxRejoin
    /\ rejoins' = rejoins + 1
    /\ client' = Fresh(client.disk)
    /\ server' = MapSent(server)
    /\ toClient' = MapMessage(server)
    /\ toServer' = Hello
    /\ confused' = (confused \/ Stage(server.state) > Stage("CONNECTING"))
    /\ UNCHANGED loads

-----------------------------------------------------------------------------
(* The client *)

Receives(type) == toClient # <<>> /\ Head(toClient).type = type

Say(type, c) == <<[type |-> type, turn |-> c.turn]>>

\* Mutant: the client says that it is ready when the download begins.
RequestAndReady(c) ==
    <<[type |-> "REQUEST_MAP_DATA", chunk |-> c.chunk, turn |-> c.turn]>> \o Say("READY", c)

\* SendMapRequest, and the request for the next chunk.
Request(c) == <<[type |-> "REQUEST_MAP_DATA", chunk |-> c.chunk, turn |-> c.turn]>>

\* What a handler makes of the client and says with SendMsg.
Reply(c, msgs) ==
    /\ client' = c
    /\ toClient' = Tail(toClient)
    /\ toServer' = toServer \o msgs
    /\ UNCHANGED <<server, loads, rejoins, confused>>

\* CClient::LoadMap has found the map.
Loaded(c, map) == [c EXCEPT !.state = "LOADING", !.map = map]

\* FinishMapDownload: the map is on the disk, and loaded.
Finished(c) ==
    [Loaded(c, c.wanted) EXCEPT !.disk = @ \cup {c.wanted}, !.wanted = NoMap, !.via = "none",
                                !.chunk = 0]

\* ResetMapDownload, and LoadMap, which starts with the state.
Told(msg) == [client EXCEPT !.turn = msg.turn, !.chunk = 0, !.state = "LOADING"]

\* NETMSG_MAP_CHANGE, with the MAP_DETAILS before it.  A file that has the name
\* of the map and is another is loaded and unloaded again.
ReceiveMapChange ==
    /\ Receives("MAP_CHANGE")
    /\ LET map == Head(toClient).map
           c == Told(Head(toClient))
       IN  IF map \in client.disk
           THEN Reply([Loaded(c, map) EXCEPT !.wanted = NoMap, !.via = "none"], Say("READY", c))
           ELSE \E left \in {client.map, NoMap} :
                    Reply([c EXCEPT !.map = left, !.wanted = map, !.via = "http"], <<>>)

\* Update: the HTTP request is done, or has failed, and the server is asked.
HttpDone ==
    /\ client.via = "http"
    /\ client' = Finished(client)
    /\ toServer' = toServer \o Say("READY", client)
    /\ UNCHANGED <<server, toClient, loads, rejoins, confused>>

HttpFails ==
    /\ client.via = "http"
    /\ client' = [client EXCEPT !.via = "server"]
    /\ toServer' = toServer \o Request(client)
    /\ UNCHANGED <<server, toClient, loads, rejoins, confused>>

\* NETMSG_MAP_DATA.
Expected(msg) ==
    client.via = "server" /\ msg.map = client.wanted /\ msg.chunk = client.chunk

ReceiveMapData ==
    /\ Receives("MAP_DATA")
    /\ LET next == [client EXCEPT !.chunk = @ + 1]
       IN  IF ~Expected(Head(toClient)) THEN Reply(client, <<>>)
           ELSE IF client.chunk = NumChunks - 1 THEN Reply(Finished(client), Say("READY", client))
                ELSE Reply(next, Request(next))

\* CGameClient::OnConnected.
ReceiveConReady ==
    /\ Receives("CON_READY")
    /\ Reply(client, Say("START_INFO", client))

\* CClient::EnterGame and OnEnterGame.
ReceiveReadyToEnter ==
    /\ Receives("READY_TO_ENTER")
    /\ Reply([client EXCEPT !.received = 0], Say("ENTERGAME", client))

\* A snapshot is complete; with the second one the client is in the game.  It counts
\* those of a game before a MAP_CHANGE that come late, too.
ReceiveSnapshot ==
    /\ server.played /\ client.received < 2
    /\ client' = [client EXCEPT !.received = @ + 1,
                                !.state = IF client.received = 1 THEN "ONLINE" ELSE @]
    /\ UNCHANGED <<server, toClient, toServer, loads, rejoins, confused>>

-----------------------------------------------------------------------------

ServerStep ==
    HandleClientVer \/ HandleInfo \/ HandleRequestMapData \/ HandleReady \/ HandleStartInfo
        \/ HandleEnterGame

ClientStep ==
    ReceiveMapChange \/ ReceiveMapData \/ ReceiveConReady \/ ReceiveReadyToEnter

Next ==
    \/ ServerStep \/ ClientStep \/ HttpDone \/ HttpFails \/ ReceiveSnapshot
    \/ \E map \in Map : LoadMap(map)
    \/ Rejoin

Spec == Init /\ [][Next]_vars

\* What has been sent is delivered and handled, HTTP has timeouts, and snapshots
\* go on in a game.  Nothing says that late ones come.
FairSpec ==
    /\ Spec
    /\ WF_vars(ServerStep) /\ WF_vars(ClientStep)
    /\ WF_vars(HttpDone \/ HttpFails) /\ WF_vars(server.state = "INGAME" /\ ReceiveSnapshot)

-----------------------------------------------------------------------------

\* The client is in the game with the server's map.
Playing ==
    server.state = "INGAME" /\ client.state = "ONLINE" /\ client.map = server.map

\* A client that the server has in the game has loaded the map of that game, and
\* loads no other unless it has been told to.
InGameOnMap ==
    server.state = "INGAME" /\ ~confused =>
        client.map = server.map /\ client.via = "none" /\ client.turn = server.turn

\* The chunks on their way are those of the window and the one that answers the
\* latest request, and as many for requests of one map before: older ones have
\* arrived when a new window opens.  The resend buffer has to hold them all.
WindowKept ==
    ~confused =>
        Cardinality({i \in 1 .. Len(toClient) : toClient[i].type = "MAP_DATA"}) <= 2 * (Window + 1)

MapLoaded == client.via = "none" /\ client.map # NoMap

\* The client enters the game only when the map it was told to load is loaded,
\* unless the server was confused.
EntersOnLoadedMap == [][ReceiveReadyToEnter /\ ~confused => MapLoaded]_vars

\* OnEnterGame is "called when the map is loaded" (client.cpp, above it).
CalledWhenMapLoaded == [][ReceiveReadyToEnter => MapLoaded]_vars

\* Whatever the server loads and however the download goes, the client ends in
\* the game on the server's map, unless the server was confused.
EventuallyPlays == <>[]Playing \/ <>confused

=============================================================================
