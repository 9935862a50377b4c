-------------------------- MODULE MapChangeProofs --------------------------
(***************************************************************************)
(* Proofs about MapChange: as long as the server has not taken a message   *)
(* of one map for one of another, a client in the game is on the map of    *)
(* the game, and enters only with its map loaded, and no more chunks are   *)
(* on their way than the window allows; for any maps, any sizes and        *)
(* windows, and any number of loads and rejoins.                           *)
(***************************************************************************)
EXTENDS MapChange, TLAPS, SequenceTheorems, FiniteSetTheorems

USE MapChangeAssumption

-----------------------------------------------------------------------------
(* Queues and states *)

In(q) == {q[i] : i \in 1 .. Len(q)}

\* A message that is handled leaves the queue, the others move up.
LEMMA TailFacts ==
    ASSUME NEW S, NEW q \in Seq(S), q # <<>>
    PROVE  /\ Head(q) \in S /\ Head(q) = q[1] /\ Head(q) \in In(q)
           /\ Tail(q) \in Seq(S) /\ Len(Tail(q)) = Len(q) - 1
           /\ \A i \in 1 .. Len(Tail(q)) : i + 1 \in 1 .. Len(q) /\ Tail(q)[i] = q[i + 1]
           /\ In(Tail(q)) \subseteq In(q)
<1>1. Len(q) \in Nat /\ Len(q) > 0 /\ Head(q) = q[1] /\ q[1] \in S
  BY EmptySeq, SMT
<1>2. Tail(q) \in Seq(S) /\ Len(Tail(q)) = Len(q) - 1
  BY HeadTailProperties
<1>3. \A i \in 1 .. Len(Tail(q)) : i + 1 \in 1 .. Len(q) /\ Tail(q)[i] = q[i + 1]
  BY <1>1, <1>2
<1>4. In(Tail(q)) \subseteq In(q)
  BY <1>3 DEF In
<1>5. Head(q) \in In(q)
  BY <1>1 DEF In
<1> QED
  BY <1>1, <1>2, <1>3, <1>4, <1>5

\* Messages that are sent are behind those that are there.
LEMMA ConcatFacts ==
    ASSUME NEW S, NEW p \in Seq(S), NEW q \in Seq(S)
    PROVE  /\ p \o q \in Seq(S) /\ Len(p \o q) = Len(p) + Len(q)
           /\ \A i \in 1 .. Len(p \o q) :
                 \/ i \in 1 .. Len(p) /\ (p \o q)[i] = p[i]
                 \/ i - Len(p) \in 1 .. Len(q) /\ (p \o q)[i] = q[i - Len(p)]
           /\ In(p \o q) = In(p) \cup In(q)
<1>1. p \o q \in Seq(S) /\ Len(p \o q) = Len(p) + Len(q) /\ Len(p) \in Nat /\ Len(q) \in Nat
  BY ConcatProperties
<1>2. \A i \in 1 .. Len(p \o q) : (p \o q)[i] = IF i <= Len(p) THEN p[i] ELSE q[i - Len(p)]
  BY <1>1, ConcatProperties
<1>3. \A i \in 1 .. Len(p \o q) :
                 \/ i \in 1 .. Len(p) /\ (p \o q)[i] = p[i]
                 \/ i - Len(p) \in 1 .. Len(q) /\ (p \o q)[i] = q[i - Len(p)]
  BY <1>1, <1>2
<1>4. In(p \o q) \subseteq In(p) \cup In(q)
  BY <1>3 DEF In
<1>5. \A i \in 1 .. Len(p) : i \in 1 .. Len(p \o q) /\ (p \o q)[i] = p[i]
  BY <1>1, <1>2
<1>6. \A i \in 1 .. Len(q) : i + Len(p) \in 1 .. Len(p \o q) /\ (p \o q)[i + Len(p)] = q[i]
  <2> TAKE i \in 1 .. Len(q)
  <2>1. i + Len(p) \in 1 .. Len(p \o q) /\ ~(i + Len(p) <= Len(p)) /\ i + Len(p) - Len(p) = i
    BY <1>1
  <2> QED
    BY <1>2, <2>1
<1>7. In(p) \cup In(q) \subseteq In(p \o q)
  BY <1>5, <1>6 DEF In
<1> QED
  BY <1>1, <1>3, <1>4, <1>7

LEMMA OneMessage ==
    ASSUME NEW m
    PROVE  In(<<m>>) = {m} /\ Len(<<m>>) = 1 /\ <<m>>[1] = m
BY DEF In

LEMMA NoMessage == In(<<>>) = {} /\ Len(<<>>) = 0
BY DEF In

StateNames == {"PREAUTH", "AUTH", "CONNECTING", "READY", "INGAME"}

\* The states of a slot are in this order.
LEMMA StageValues ==
    /\ {States[i] : i \in 1 .. Len(States)} = StateNames
    /\ Stage("PREAUTH") = 1 /\ Stage("AUTH") = 2 /\ Stage("CONNECTING") = 3
    /\ Stage("READY") = 4 /\ Stage("INGAME") = 5
<1>1. /\ Len(States) = 5 /\ States[1] = "PREAUTH" /\ States[2] = "AUTH"
      /\ States[3] = "CONNECTING" /\ States[4] = "READY" /\ States[5] = "INGAME"
  BY DEF States
<1>2. 1 .. Len(States) = {1, 2, 3, 4, 5}
  BY <1>1
<1>3. {States[i] : i \in 1 .. Len(States)} = StateNames
  BY <1>1, <1>2 DEF StateNames
<1>4. \A n \in 1 .. 5 : Stage(States[n]) = n
  <2> TAKE n \in 1 .. 5
  <2>1. \A m \in 1 .. Len(States) : States[m] = States[n] => m = n
    BY <1>1, <1>2
  <2>2. n \in 1 .. Len(States)
    BY <1>1
  <2> QED
    BY <2>1, <2>2 DEF Stage
<1> QED
  BY <1>1, <1>3, <1>4

LEMMA StageRange == \A s \in StateNames : Stage(s) \in 1 .. 5
BY StageValues DEF StateNames

-----------------------------------------------------------------------------
(* Types *)

Server == [turn : Nat, map : Map, state : StateNames, nextMapChunk : Nat, isReady : BOOLEAN,
           played : BOOLEAN]

Client == [state : {"LOADING", "ONLINE"}, map : Map \cup {NoMap}, disk : SUBSET Map,
           turn : Nat, wanted : Map \cup {NoMap}, via : {"none", "http", "server"},
           chunk : Chunk, received : 0 .. 2]

ClientOK(c) == c \in Client /\ (c.via = "none" <=> c.wanted = NoMap)

LEMMA TypeParts ==
    TypeOK <=> /\ server \in Server /\ ClientOK(client)
               /\ toClient \in Seq(ToClient) /\ toServer \in Seq(ToServer)
               /\ loads \in 0 .. MaxLoads /\ rejoins \in 0 .. MaxRejoin /\ confused \in BOOLEAN
BY StageValues DEF TypeOK, Server, Client, ClientOK

\* What the messages carry.
LEMMA ToClientFields ==
    ASSUME NEW m \in ToClient
    PROVE  /\ m.type \in {"MAP_CHANGE", "MAP_DATA", "CON_READY", "READY_TO_ENTER"}
           /\ m.type = "MAP_CHANGE" => m.map \in Map /\ m.turn \in Nat
           /\ m.type = "MAP_DATA" => m.map \in Map /\ m.chunk \in Chunk
BY DEF ToClient

LEMMA ToServerFields ==
    ASSUME NEW m \in ToServer
    PROVE  /\ m.type \in {"CLIENTVER", "INFO", "READY", "START_INFO", "ENTERGAME", "REQUEST_MAP_DATA"}
           /\ m.turn \in Nat
           /\ m.type = "REQUEST_MAP_DATA" => m.chunk \in Chunk
BY DEF ToServer

\* The chunks the server sends are chunks of the map.
LEMMA MapDataType ==
    ASSUME server \in Server, NEW first \in Nat, NEW last \in Int
    PROVE  /\ MapData(first, last) \in Seq(ToClient)
           /\ \A m \in In(MapData(first, last)) : m.type = "MAP_DATA"
<1> DEFINE top == IF last < NumChunks - 1 THEN last ELSE NumChunks - 1
           n == Cardinality(Chunk \cap first .. last)
           Data(i) == [type |-> "MAP_DATA", map |-> server.map, chunk |-> first + i - 1]
<1>1. top \in Int /\ Chunk \cap first .. last = first .. top
  BY DEF Chunk
<1>2. n = IF first > top THEN 0 ELSE top - first + 1
  <2>1. first \in Int
    OBVIOUS
  <2>2. Cardinality(first .. top) = IF first > top THEN 0 ELSE top - first + 1
    BY <1>1, <2>1, FS_Interval, Zenon
  <2> QED
    BY <1>1, <2>2
<1>3. n \in Nat /\ (n > 0 => first + n - 1 <= NumChunks - 1)
  BY <1>1, <1>2
<1> HIDE DEF n
<1>4. ASSUME NEW i \in 1 .. n
      PROVE  Data(i) \in [type : {"MAP_DATA"}, map : Map, chunk : Chunk]
  <2>1. first + i - 1 \in Chunk
    BY <1>3 DEF Chunk
  <2> QED
    BY <2>1 DEF Server
<1>5. \A i \in 1 .. n : Data(i) \in ToClient
  BY <1>4 DEF ToClient
<1>6. MapData(first, last) = [i \in 1 .. n |-> Data(i)]
  BY DEF MapData, n
<1>7. [i \in 1 .. n |-> Data(i)] \in Seq(ToClient)
  <2> HIDE DEF Data
  <2>1. [i \in 1 .. n |-> Data(i)] \in [1 .. n -> ToClient]
    BY <1>5
  <2> QED
    BY <1>3, <2>1, SeqDef, Zenon
<1>8. Len([i \in 1 .. n |-> Data(i)]) = n
  BY <1>3
<1>9. \A i \in 1 .. n : MapData(first, last)[i].type = "MAP_DATA"
  BY <1>6
<1> QED
  BY <1>6, <1>7, <1>8, <1>9 DEF In

-----------------------------------------------------------------------------
(* What a step does *)

\* The server handles a message and sends no map.
Served ==
    /\ client' = client
    /\ toServer # <<>> /\ toServer' = Tail(toServer)
    /\ server'.turn = server.turn /\ server'.map = server.map
    /\ \E msgs \in Seq(ToClient) :
          /\ toClient' = toClient \o msgs
          /\ \A m \in In(msgs) :
                m.type # "MAP_CHANGE" /\ (m.type = "READY_TO_ENTER" => Stage(server.state) >= 4)
    /\ confused => confused'
    /\ Stage(server'.state) >= 3 => Stage(server.state) >= 3
    /\ Stage(server'.state) >= 4 /\ ~confused' =>
          \/ Stage(server.state) >= 4
          \/ /\ Stage(server.state) >= 3
             /\ Head(toServer).type = "READY" /\ Head(toServer).turn = server.turn

\* The server sends a map.
Sent ==
    /\ client' = client
    /\ In(toServer') \subseteq In(toServer)
    /\ server'.turn = server.turn + 1 /\ server'.state = "CONNECTING"
    /\ toClient' = toClient \o
          <<[type |-> "MAP_CHANGE", map |-> server'.map, turn |-> server'.turn]>>
    /\ confused' = confused

\* The server loads a map before the client has had one.
Replaced ==
    /\ client' = client /\ toServer' = toServer /\ toClient' = toClient /\ confused' = confused
    /\ server'.turn = server.turn /\ server'.state = server.state /\ Stage(server.state) < 3

\* The client is another process.
CameBack ==
    /\ client'.turn = 0 /\ client'.via = "none"
    /\ server'.turn = server.turn + 1 /\ server'.map = server.map /\ server'.state = server.state
    /\ toClient' = <<[type |-> "MAP_CHANGE", map |-> server'.map, turn |-> server'.turn]>>
    /\ \A m \in In(toServer') : m.type # "READY"
    /\ Stage(server.state) >= 4 => confused'
    /\ confused => confused'

Ready(c) == [type |-> "READY", turn |-> c.turn]

\* The client is told of a map.
HeardOfMap ==
    /\ server' = server /\ confused' = confused
    /\ toClient # <<>> /\ toClient' = Tail(toClient) /\ Head(toClient).type = "MAP_CHANGE"
    /\ client'.turn = Head(toClient).turn
    /\ \/ /\ client'.via = "none" /\ client'.map = Head(toClient).map
          /\ In(toServer') \subseteq In(toServer) \cup {Ready(client')}
       \/ /\ client'.via # "none" /\ client'.wanted = Head(toClient).map
          /\ In(toServer') \subseteq In(toServer)

\* The client does anything else.
WentOn ==
    /\ server' = server /\ confused' = confused
    /\ toClient' = toClient \/ (toClient # <<>> /\ toClient' = Tail(toClient))
    /\ client'.turn = client.turn
    /\ \/ /\ client'.via = client.via /\ client'.map = client.map /\ client'.wanted = client.wanted
          /\ \A m \in In(toServer') : m \in In(toServer) \/ m.type # "READY"
       \/ /\ client.via # "none" /\ client'.via # "none" /\ client'.wanted = client.wanted
          /\ \A m \in In(toServer') : m \in In(toServer) \/ m.type # "READY"
       \/ /\ client.via # "none" /\ client'.via = "none" /\ client'.map = client.wanted
          /\ In(toServer') \subseteq In(toServer) \cup {Ready(client')}

StepKind == Served \/ Sent \/ Replaced \/ CameBack \/ HeardOfMap \/ WentOn

\* The answer of a handler that sends no map.
LEMMA AnswerKind ==
    ASSUME TypeOK, toServer # <<>>,
           NEW s \in Server, s.turn = server.turn, s.map = server.map,
           NEW msgs \in Seq(ToClient),
           \A m \in In(msgs) :
              m.type # "MAP_CHANGE" /\ (m.type = "READY_TO_ENTER" => Stage(server.state) >= 4),
           NEW misled \in BOOLEAN,
           Answer(s, msgs, misled),
           Stage(s.state) >= 3 => Stage(server.state) >= 3,
           Stage(s.state) >= 4 /\ ~misled =>
              \/ Stage(server.state) >= 4
              \/ /\ Stage(server.state) >= 3
                 /\ Head(toServer).type = "READY" /\ Head(toServer).turn = server.turn
    PROVE  TypeOK' /\ Served
<1>1. /\ server' = s /\ toServer' = Tail(toServer) /\ toClient' = toClient \o msgs
      /\ confused' = (confused \/ misled) /\ UNCHANGED <<client, loads, rejoins>>
  BY DEF Answer
<1>2. toServer \in Seq(ToServer) /\ toClient \in Seq(ToClient) /\ confused \in BOOLEAN
  BY TypeParts
<1>3. toServer' \in Seq(ToServer)
  BY <1>1, <1>2, TailFacts
<1>4. toClient' \in Seq(ToClient)
  BY <1>1, <1>2, ConcatFacts
<1>5. TypeOK'
  <2>1. /\ server' \in Server /\ ClientOK(client')
        /\ loads' \in 0 .. MaxLoads /\ rejoins' \in 0 .. MaxRejoin /\ confused' \in BOOLEAN
    BY <1>1, <1>2, TypeParts
  <2> QED
    BY <1>3, <1>4, <2>1, StageValues DEF TypeOK, Server, Client, ClientOK
<1>6. confused' <=> (confused \/ misled)
  BY <1>1, <1>2
<1>7. Served
  BY <1>1, <1>6 DEF Served
<1> QED
  BY <1>5, <1>7

\* The oldest message to the server.
LEMMA HandledMessage ==
    ASSUME TypeOK, NEW type, Handles(type)
    PROVE  /\ toServer # <<>> /\ Head(toServer) \in ToServer /\ Head(toServer).type = type
           /\ Head(toServer).turn \in Nat /\ server \in Server /\ Stage(server.state) \in 1 .. 5
           /\ server.state \in StateNames
BY TypeParts, TailFacts, ToServerFields, StageRange DEF Handles, Server

LEMMA ClientVerKind == ASSUME TypeOK, HandleClientVer PROVE TypeOK' /\ Served
<1> USE DEF HandleClientVer
<1>1. toServer # <<>> /\ server \in Server /\ Stage(server.state) \in 1 .. 5
  BY HandledMessage
<1> DEFINE s == IF server.state = "PREAUTH" THEN [server EXCEPT !.state = "AUTH"] ELSE server
<1>2. s \in Server /\ s.turn = server.turn /\ s.map = server.map
  BY <1>1 DEF Server, StateNames
<1>3. /\ Stage(s.state) >= 3 => Stage(server.state) >= 3
      /\ Stage(s.state) >= 4 => Stage(server.state) >= 4
  BY <1>1, StageValues DEF Server
<1>4. Answer(s, <<>>, FALSE)
  OBVIOUS
<1> HIDE DEF s
<1>5. <<>> \in Seq(ToClient) /\ In(<<>>) = {}
  BY NoMessage
<1> QED
  BY <1>1, <1>2, <1>3, <1>4, <1>5, AnswerKind

LEMMA RequestKind == ASSUME TypeOK, HandleRequestMapData PROVE TypeOK' /\ Served
<1>1. /\ toServer # <<>> /\ server \in Server /\ Stage(server.state) \in 1 .. 5
      /\ Head(toServer).chunk \in Chunk /\ Head(toServer).turn \in Nat
  BY HandledMessage, ToServerFields DEF HandleRequestMapData
<1> DEFINE chunk == Head(toServer).chunk
           next == Window + server.nextMapChunk
           s == [server EXCEPT !.nextMapChunk = @ + 1]
<1>2. /\ chunk \in Nat /\ next \in Nat
      /\ chunk \in Int /\ next \in Int /\ Window - 1 \in Int
  BY <1>1 DEF Chunk, Server
<1>3. s \in Server /\ s.turn = server.turn /\ s.map = server.map /\ s.state = server.state
  BY <1>1 DEF Server
<1>4. Stale \in BOOLEAN
  BY DEF Stale
<1>5. <<>> \in Seq(ToClient) /\ In(<<>>) = {}
  BY NoMessage
<1>6. /\ MapData(chunk, chunk) \in Seq(ToClient)
      /\ \A m \in In(MapData(chunk, chunk)) : m.type = "MAP_DATA"
  <2> HIDE DEF chunk
  <2> QED
    BY <1>1, <1>2, MapDataType, Zenon
<1>7. /\ Ahead(chunk) \in Seq(ToClient)
      /\ \A m \in In(Ahead(chunk)) : m.type = "MAP_DATA"
  <2> DEFINE p == IF chunk = 0 THEN MapData(0, Window - 1) ELSE <<>>
             q == MapData(next, next)
  <2>1. p \in Seq(ToClient) /\ \A m \in In(p) : m.type = "MAP_DATA"
    BY <1>1, <1>2, <1>5, MapDataType
  <2>2. q \in Seq(ToClient) /\ \A m \in In(q) : m.type = "MAP_DATA"
    <3> HIDE DEF next
    <3> QED
      BY <1>1, <1>2, MapDataType, Zenon
  <2>3. Ahead(chunk) = p \o q
    BY DEF Ahead
  <2> HIDE DEF p, q
  <2>4. p \o q \in Seq(ToClient) /\ In(p \o q) = In(p) \cup In(q)
    BY <2>1, <2>2, ConcatFacts
  <2> QED
    BY <2>1, <2>2, <2>3, <2>4
<1>8. \/ Answer(server, <<>>, FALSE) \/ Answer(s, Ahead(chunk), Stale)
      \/ Answer(server, MapData(chunk, chunk), FALSE)
  BY DEF HandleRequestMapData
<1> HIDE DEF s, chunk, next
<1>9. CASE Answer(server, <<>>, FALSE)
  BY <1>1, <1>5, <1>9, AnswerKind
<1>10. CASE Answer(s, Ahead(chunk), Stale)
  BY <1>1, <1>3, <1>4, <1>7, <1>10, AnswerKind
<1>11. CASE Answer(server, MapData(chunk, chunk), FALSE)
  BY <1>1, <1>6, <1>11, AnswerKind
<1> QED
  BY <1>8, <1>9, <1>10, <1>11

LEMMA ReadyKind == ASSUME TypeOK, HandleReady PROVE TypeOK' /\ Served
<1> DEFINE msg == [type |-> "CON_READY"]
           s == [server EXCEPT !.state = "READY", !.isReady = FALSE]
<1>1. /\ toServer # <<>> /\ server \in Server /\ Stage(server.state) \in 1 .. 5
      /\ Head(toServer).type = "READY" /\ Head(toServer).turn \in Nat
  BY HandledMessage DEF HandleReady
<1>2. msg \in ToClient
  BY DEF ToClient
<1>3. <<msg>> \in Seq(ToClient) /\ \A m \in In(<<msg>>) : m.type = "CON_READY"
  BY <1>2, OneMessage
<1>4. /\ s \in Server /\ s.turn = server.turn /\ s.map = server.map /\ s.state = "READY"
  BY <1>1 DEF Server, StateNames
<1>5. Stale \in BOOLEAN /\ (~Stale => Head(toServer).turn = server.turn)
  BY DEF Stale
<1>6. \/ server.state = "CONNECTING" /\ Answer(s, <<msg>>, Stale)
      \/ Answer(server, <<msg>>, FALSE)
  BY DEF HandleReady
<1> HIDE DEF s, msg
<1>7. CASE server.state = "CONNECTING" /\ Answer(s, <<msg>>, Stale)
  <2>1. Stage(server.state) >= 3
    BY <1>7, StageValues
  <2> QED
    BY <1>1, <1>3, <1>4, <1>5, <1>7, <2>1, AnswerKind
<1>8. CASE Answer(server, <<msg>>, FALSE)
  BY <1>1, <1>3, <1>8, AnswerKind
<1> QED
  BY <1>6, <1>7, <1>8

LEMMA StartInfoKind == ASSUME TypeOK, HandleStartInfo PROVE TypeOK' /\ Served
<1> DEFINE msg == [type |-> "READY_TO_ENTER"]
           s == [server EXCEPT !.isReady = TRUE]
<1>1. /\ toServer # <<>> /\ server \in Server /\ Stage(server.state) \in 1 .. 5
  BY HandledMessage DEF HandleStartInfo
<1>2. msg \in ToClient
  BY DEF ToClient
<1>3. <<msg>> \in Seq(ToClient) /\ \A m \in In(<<msg>>) : m.type = "READY_TO_ENTER"
  BY <1>2, OneMessage
<1>4. s \in Server /\ s.turn = server.turn /\ s.map = server.map /\ s.state = server.state
  BY <1>1 DEF Server
<1>5. <<>> \in Seq(ToClient) /\ In(<<>>) = {}
  BY NoMessage
<1>6. \/ Stage(server.state) >= 4 /\ Answer(s, <<msg>>, FALSE)
      \/ Answer(server, <<>>, FALSE)
  BY StageValues DEF HandleStartInfo
<1> HIDE DEF s, msg
<1>7. CASE Stage(server.state) >= 4 /\ Answer(s, <<msg>>, FALSE)
  BY <1>1, <1>3, <1>4, <1>7, AnswerKind
<1>8. CASE Answer(server, <<>>, FALSE)
  BY <1>1, <1>5, <1>8, AnswerKind
<1> QED
  BY <1>6, <1>7, <1>8

LEMMA EnterGameKind == ASSUME TypeOK, HandleEnterGame PROVE TypeOK' /\ Served
<1>1. toServer # <<>> /\ server \in Server /\ Stage(server.state) \in 1 .. 5
  BY HandledMessage DEF HandleEnterGame
<1> DEFINE s == IF server.state = "READY" /\ server.isReady
                THEN [server EXCEPT !.state = "INGAME", !.played = TRUE] ELSE server
<1>2. s \in Server /\ s.turn = server.turn /\ s.map = server.map
  BY <1>1 DEF Server, StateNames
<1>3. /\ Stage(s.state) >= 3 => Stage(server.state) >= 3
      /\ Stage(s.state) >= 4 => Stage(server.state) >= 4
  BY <1>1, StageValues DEF Server
<1>4. Answer(s, <<>>, FALSE)
  BY DEF HandleEnterGame
<1> HIDE DEF s
<1>5. <<>> \in Seq(ToClient) /\ In(<<>>) = {}
  BY NoMessage
<1> QED
  BY <1>1, <1>2, <1>3, <1>4, <1>5, AnswerKind

MapChangeOf(s) == [type |-> "MAP_CHANGE", map |-> s.map, turn |-> s.turn + 1]

\* The message goes with the state.
LEMMA SentState ==
    ASSUME NEW s \in Server
    PROVE  /\ MapSent(s) \in Server /\ MapSent(s).turn = s.turn + 1 /\ MapSent(s).map = s.map
           /\ MapSent(s).state = s.state
           /\ Restarted(s) \in Server /\ Restarted(s).turn = s.turn + 1 /\ Restarted(s).map = s.map
           /\ Restarted(s).state = "CONNECTING"
           /\ MapMessage(s) = <<MapChangeOf(s)>>
           /\ MapChangeOf(s) \in ToClient /\ <<MapChangeOf(s)>> \in Seq(ToClient)
<1>1. /\ MapSent(s) \in Server /\ MapSent(s).turn = s.turn + 1 /\ MapSent(s).map = s.map
      /\ MapSent(s).state = s.state
  <2>1. s.turn + 1 \in Nat /\ 0 \in Nat
    BY DEF Server
  <2>2. MapSent(s) = [s EXCEPT !.nextMapChunk = 0, !.turn = s.turn + 1]
    BY DEF MapSent, Server
  <2> QED
    BY <2>1, <2>2 DEF Server
<1>2. /\ Restarted(s) \in Server /\ Restarted(s).turn = s.turn + 1 /\ Restarted(s).map = s.map
      /\ Restarted(s).state = "CONNECTING"
  BY <1>1 DEF Server, Restarted, StateNames
<1>3. MapMessage(s) = <<MapChangeOf(s)>>
  BY DEF MapMessage, MapChangeOf
<1>4. MapChangeOf(s) \in [type : {"MAP_CHANGE"}, map : Map, turn : Nat]
  BY DEF MapChangeOf, Server
<1>5. MapChangeOf(s) \in ToClient
  BY <1>4 DEF ToClient
<1>6. <<MapChangeOf(s)>> \in Seq(ToClient)
  BY <1>5
<1> QED
  BY <1>1, <1>2, <1>3, <1>5, <1>6

LEMMA InfoKind == ASSUME TypeOK, HandleInfo PROVE TypeOK' /\ (Served \/ Sent)
<1>1. /\ toServer # <<>> /\ server \in Server /\ Stage(server.state) \in 1 .. 5
  BY HandledMessage DEF HandleInfo
<1>2. <<>> \in Seq(ToClient) /\ In(<<>>) = {}
  BY NoMessage
<1>3. \/ Answer(server, <<>>, FALSE) \/ Answer(Restarted(server), MapMessage(server), FALSE)
  BY DEF HandleInfo
<1>4. CASE Answer(server, <<>>, FALSE)
  BY <1>1, <1>2, <1>4, AnswerKind
<1>5. CASE Answer(Restarted(server), MapMessage(server), FALSE)
  <2>1. /\ server' = Restarted(server) /\ toServer' = Tail(toServer)
        /\ toClient' = toClient \o <<MapChangeOf(server)>>
        /\ confused' = (confused \/ FALSE) /\ UNCHANGED <<client, loads, rejoins>>
    BY <1>1, <1>5, SentState DEF Answer
  <2>2. toServer \in Seq(ToServer) /\ toClient \in Seq(ToClient) /\ confused \in BOOLEAN
    BY TypeParts
  <2>3. confused' = confused
    BY <2>1, <2>2
  <2>4. toServer' \in Seq(ToServer) /\ In(toServer') \subseteq In(toServer)
    BY <1>1, <2>1, <2>2, TailFacts
  <2>5. toClient' \in Seq(ToClient)
    BY <1>1, <2>1, <2>2, SentState, ConcatFacts
  <2>6. server' \in Server /\ server'.turn = server.turn + 1 /\ server'.map = server.map
        /\ server'.state = "CONNECTING"
    BY <1>1, <2>1, SentState
  <2>7. /\ ClientOK(client') /\ loads' \in 0 .. MaxLoads /\ rejoins' \in 0 .. MaxRejoin
    BY <2>1, TypeParts
  <2>8. TypeOK'
    BY <2>2, <2>3, <2>4, <2>5, <2>6, <2>7, StageValues DEF TypeOK, Server, Client, ClientOK
  <2>9. toClient' = toClient \o
             <<[type |-> "MAP_CHANGE", map |-> server'.map, turn |-> server'.turn]>>
    BY <2>1, <2>6 DEF MapChangeOf
  <2>10. Sent
    BY <2>1, <2>3, <2>4, <2>6, <2>9 DEF Sent
  <2> QED
    BY <2>8, <2>10
<1> QED
  BY <1>3, <1>4, <1>5

LEMMA LoadKind == ASSUME TypeOK, NEW map \in Map, LoadMap(map) PROVE TypeOK' /\ (Replaced \/ Sent)
<1> DEFINE s == [server EXCEPT !.map = map, !.isReady = FALSE]
<1>1. /\ server \in Server /\ ClientOK(client) /\ toClient \in Seq(ToClient)
      /\ toServer \in Seq(ToServer) /\ confused \in BOOLEAN /\ loads \in 0 .. MaxLoads
      /\ rejoins \in 0 .. MaxRejoin /\ Stage(server.state) \in 1 .. 5
  BY TypeParts, StageRange DEF Server
<1>2. s \in Server /\ s.turn = server.turn /\ s.map = map /\ s.state = server.state
  BY <1>1 DEF Server
<1>3. /\ \/ Stage(server.state) < 3 /\ server' = s /\ toClient' = toClient
         \/ server' = Restarted(s) /\ toClient' = toClient \o MapMessage(s)
      /\ UNCHANGED <<client, toServer, rejoins, confused>>
  <2>1. Stage(server.state) <= Stage("AUTH") => Stage(server.state) < 3
    BY <1>1, StageValues
  <2>2. \/ Stage(server.state) <= Stage("AUTH") /\ server' = s /\ toClient' = toClient
        \/ server' = Restarted(s) /\ toClient' = toClient \o MapMessage(s)
    BY DEF LoadMap
  <2>3. UNCHANGED <<client, toServer, rejoins, confused>>
    BY DEF LoadMap
  <2> QED
    BY <2>1, <2>2, <2>3
<1>4. loads' \in 0 .. MaxLoads
  BY <1>1 DEF LoadMap
<1> HIDE DEF s
<1>5. CASE Stage(server.state) < 3 /\ server' = s /\ toClient' = toClient
  <2>1. TypeOK'
    BY <1>1, <1>2, <1>3, <1>4, <1>5, StageValues DEF TypeOK, Server, Client, ClientOK
  <2>2. Replaced
    BY <1>2, <1>3, <1>5 DEF Replaced
  <2> QED
    BY <2>1, <2>2
<1>6. CASE server' = Restarted(s) /\ toClient' = toClient \o MapMessage(s)
  <2>1. /\ server' \in Server /\ server'.turn = server.turn + 1 /\ server'.map = s.map
        /\ server'.state = "CONNECTING"
    BY <1>2, <1>6, SentState
  <2>2. toClient' = toClient \o <<MapChangeOf(s)>>
    BY <1>2, <1>6, SentState
  <2>3. toClient' \in Seq(ToClient)
    BY <1>1, <1>2, <2>2, SentState, ConcatFacts
  <2>4. TypeOK'
    BY <1>1, <1>3, <1>4, <2>1, <2>3, StageValues DEF TypeOK, Server, Client, ClientOK
  <2>5. toClient' = toClient \o
             <<[type |-> "MAP_CHANGE", map |-> server'.map, turn |-> server'.turn]>>
    BY <1>2, <2>1, <2>2 DEF MapChangeOf
  <2>6. Sent
    BY <1>3, <2>1, <2>5 DEF Sent
  <2> QED
    BY <2>4, <2>6
<1> QED
  BY <1>3, <1>5, <1>6

LEMMA HelloFacts ==
    /\ Hello \in Seq(ToServer)
    /\ \A m \in In(Hello) : m.type # "READY"
<1> DEFINE a == [type |-> "CLIENTVER", turn |-> 0]
           b == [type |-> "INFO", turn |-> 0]
<1>1. a \in ToServer /\ b \in ToServer
  BY DEF ToServer
<1>2. Hello = <<a, b>>
  BY DEF Hello
<1>3. a.type # "READY" /\ b.type # "READY"
  OBVIOUS
<1> HIDE DEF a, b
<1>4. Hello \in Seq(ToServer)
  BY <1>1, <1>2
<1>5. In(Hello) = {a, b}
  <2>1. Len(Hello) = 2 /\ Hello[1] = a /\ Hello[2] = b /\ 1 .. 2 = {1, 2}
    BY <1>2
  <2> QED
    BY <2>1 DEF In
<1> QED
  BY <1>3, <1>4, <1>5

LEMMA FreshType ==
    ASSUME NEW disk \in SUBSET Map
    PROVE  /\ ClientOK(Fresh(disk)) /\ Fresh(disk).turn = 0 /\ Fresh(disk).via = "none"
           /\ Fresh(disk).state = "LOADING"
<1>1. 0 \in Chunk
  BY DEF Chunk
<1> QED
  BY <1>1 DEF Fresh, ClientOK, Client

LEMMA RejoinKind == ASSUME TypeOK, Rejoin PROVE TypeOK' /\ CameBack
<1>1. /\ server \in Server /\ client.disk \in SUBSET Map /\ confused \in BOOLEAN
      /\ loads \in 0 .. MaxLoads /\ rejoins \in 0 .. MaxRejoin
  BY TypeParts DEF ClientOK, Client
<1>2. /\ client' = Fresh(client.disk) /\ server' = MapSent(server)
      /\ toClient' = MapMessage(server) /\ toServer' = Hello
      /\ confused' = (confused \/ Stage(server.state) > Stage("CONNECTING")) /\ loads' = loads
  BY DEF Rejoin
<1>3. rejoins' \in 0 .. MaxRejoin
  BY <1>1 DEF Rejoin
<1>4. confused' \in BOOLEAN /\ (confused => confused') /\ (Stage(server.state) >= 4 => confused')
  <2>1. Stage(server.state) \in 1 .. 5
    BY <1>1, StageRange DEF Server
  <2>2. Stage(server.state) >= 4 => Stage(server.state) > Stage("CONNECTING")
    BY <2>1, StageValues
  <2> QED
    BY <1>1, <1>2, <2>2
<1>5. /\ server' \in Server /\ server'.turn = server.turn + 1 /\ server'.map = server.map
      /\ server'.state = server.state /\ toClient' = <<MapChangeOf(server)>>
      /\ toClient' \in Seq(ToClient)
  BY <1>1, <1>2, SentState
<1>6. ClientOK(client') /\ client'.turn = 0 /\ client'.via = "none"
  BY <1>1, <1>2, FreshType
<1>7. toServer' \in Seq(ToServer) /\ \A m \in In(toServer') : m.type # "READY"
  BY <1>2, HelloFacts
<1>8. TypeOK'
  BY <1>1, <1>2, <1>3, <1>4, <1>5, <1>6, <1>7, StageValues DEF TypeOK, Server, Client, ClientOK
<1>9. toClient' = <<[type |-> "MAP_CHANGE", map |-> server'.map, turn |-> server'.turn]>>
  BY <1>5 DEF MapChangeOf
<1> QED
  BY <1>4, <1>5, <1>6, <1>7, <1>8, <1>9 DEF CameBack

\* A step of the client, which may take a message and may send some.
LEMMA ClientMoves ==
    ASSUME TypeOK, ClientOK(client'), NEW msgs \in Seq(ToServer),
           toClient' = toClient \/ (toClient # <<>> /\ toClient' = Tail(toClient)),
           toServer' = toServer \o msgs,
           UNCHANGED <<server, loads, rejoins, confused>>
    PROVE  TypeOK' /\ In(toServer') = In(toServer) \cup In(msgs)
<1>1. /\ server \in Server /\ toClient \in Seq(ToClient) /\ toServer \in Seq(ToServer)
      /\ loads \in 0 .. MaxLoads /\ rejoins \in 0 .. MaxRejoin /\ confused \in BOOLEAN
  BY TypeParts
<1>2. toServer' \in Seq(ToServer) /\ In(toServer') = In(toServer) \cup In(msgs)
  BY <1>1, ConcatFacts
<1>3. toClient' \in Seq(ToClient)
  <2>1. ASSUME toClient # <<>> PROVE Tail(toClient) \in Seq(ToClient)
    BY <1>1, <2>1, TailFacts
  <2> QED
    BY <1>1, <2>1
<1>4. TypeOK'
  BY <1>1, <1>2, <1>3, StageValues DEF TypeOK, Server, Client, ClientOK
<1> QED
  BY <1>2, <1>4

\* The oldest message to the client.
LEMMA ReceivedMessage ==
    ASSUME TypeOK, NEW type, Receives(type)
    PROVE  toClient # <<>> /\ Head(toClient) \in ToClient /\ Head(toClient).type = type
BY TypeParts, TailFacts DEF Receives

\* The replies.
LEMMA SayFacts ==
    ASSUME NEW c, c.turn \in Nat, NEW type \in {"READY", "START_INFO", "ENTERGAME"}
    PROVE  /\ Say(type, c) \in Seq(ToServer)
           /\ In(Say(type, c)) = {[type |-> type, turn |-> c.turn]}
<1> DEFINE m == [type |-> type, turn |-> c.turn]
<1>1. m \in ToServer
  BY DEF ToServer
<1>2. Say(type, c) = <<m>>
  BY DEF Say
<1> HIDE DEF m
<1>3. <<m>> \in Seq(ToServer) /\ In(<<m>>) = {m}
  BY <1>1, OneMessage
<1> QED
  BY <1>2, <1>3 DEF m

LEMMA RequestFacts ==
    ASSUME NEW c, c.turn \in Nat, c.chunk \in Chunk
    PROVE  Request(c) \in Seq(ToServer) /\ \A m \in In(Request(c)) : m.type = "REQUEST_MAP_DATA"
<1> DEFINE m == [type |-> "REQUEST_MAP_DATA", chunk |-> c.chunk, turn |-> c.turn]
<1>1. m \in ToServer /\ m.type = "REQUEST_MAP_DATA"
  BY DEF ToServer
<1>2. Request(c) = <<m>>
  BY DEF Request
<1> HIDE DEF m
<1>3. <<m>> \in Seq(ToServer) /\ In(<<m>>) = {m}
  BY <1>1, OneMessage
<1> QED
  BY <1>1, <1>2, <1>3

LEMMA NothingFacts ==
    ASSUME TypeOK
    PROVE  <<>> \in Seq(ToServer) /\ In(<<>>) = {} /\ toServer \o <<>> = toServer
<1>1. toServer \in Seq(ToServer)
  BY TypeParts
<1> QED
  BY <1>1, NoMessage, ConcatEmptySeq

\* A download that is done leaves its map loaded.
LEMMA FinishedFacts ==
    ASSUME ClientOK(client), client.via # "none"
    PROVE  /\ ClientOK(Finished(client)) /\ Finished(client).turn = client.turn
           /\ Finished(client).via = "none" /\ Finished(client).map = client.wanted
           /\ Finished(client).state = "LOADING"
<1> DEFINE c == [client EXCEPT !.state = "LOADING", !.map = client.wanted]
<1>1. client \in Client /\ client.wanted \in Map /\ 0 \in Chunk
  BY DEF ClientOK, Client, Chunk
<1>2. c \in Client /\ c.turn = client.turn /\ c.map = client.wanted /\ c.state = "LOADING"
      /\ c.disk = client.disk
  BY <1>1 DEF Client
<1>3. Finished(client) = [c EXCEPT !.disk = c.disk \cup {client.wanted}, !.wanted = NoMap,
                                   !.via = "none", !.chunk = 0]
  BY <1>2 DEF Finished, Loaded, Client
<1> HIDE DEF c
<1>4. c.disk \cup {client.wanted} \in SUBSET Map
  BY <1>1, <1>2 DEF Client
<1>5. /\ Finished(client) \in Client /\ Finished(client).turn = c.turn
      /\ Finished(client).via = "none" /\ Finished(client).map = c.map
      /\ Finished(client).state = c.state /\ Finished(client).wanted = NoMap
  BY <1>1, <1>2, <1>3, <1>4 DEF Client
<1> QED
  BY <1>2, <1>5 DEF ClientOK

LEMMA MapChangeKind == ASSUME TypeOK, ReceiveMapChange PROVE TypeOK' /\ HeardOfMap
<1> DEFINE msg == Head(toClient)
           c == Told(msg)
           got == [Loaded(c, msg.map) EXCEPT !.wanted = NoMap, !.via = "none"]
           Asking(left) == [c EXCEPT !.map = left, !.wanted = msg.map, !.via = "http"]
<1>1. toClient # <<>> /\ msg.type = "MAP_CHANGE" /\ msg.map \in Map /\ msg.turn \in Nat
  BY ReceivedMessage, ToClientFields DEF ReceiveMapChange
<1>2. client \in Client /\ ClientOK(client) /\ 0 \in Chunk
  BY TypeParts DEF ClientOK, Chunk
<1>3. \/ Reply(got, Say("READY", c))
      \/ \E left \in {client.map, NoMap} : Reply(Asking(left), <<>>)
  BY DEF ReceiveMapChange
<1>4. c \in Client /\ c.turn = msg.turn /\ c.state = "LOADING"
  BY <1>1, <1>2 DEF Told, Client
<1>5. CASE Reply(got, Say("READY", c))
  <2>1. /\ got \in Client /\ got.turn = msg.turn /\ got.state = "LOADING" /\ got.via = "none"
        /\ got.wanted = NoMap /\ got.map = msg.map
    <3> HIDE DEF c
    <3> QED
      BY <1>1, <1>4 DEF Loaded, Client
  <2> HIDE DEF got, c
  <2>2. /\ client' = got /\ toClient' = Tail(toClient) /\ toServer' = toServer \o Say("READY", c)
        /\ UNCHANGED <<server, loads, rejoins, confused>>
    BY <1>5 DEF Reply
  <2>3. Say("READY", c) \in Seq(ToServer) /\ In(Say("READY", c)) = {Ready(c)}
    BY <1>1, <1>4, SayFacts DEF Ready
  <2>4. ClientOK(client')
    BY <2>1, <2>2 DEF ClientOK
  <2>5. TypeOK' /\ In(toServer') = In(toServer) \cup {Ready(c)}
    BY <1>1, <2>2, <2>3, <2>4, ClientMoves
  <2>6. Ready(c) = Ready(client')
    BY <1>4, <2>1, <2>2 DEF Ready
  <2> QED
    BY <1>1, <2>1, <2>2, <2>5, <2>6 DEF HeardOfMap
<1>6. ASSUME NEW left \in {client.map, NoMap}, Reply(Asking(left), <<>>)
      PROVE  TypeOK' /\ HeardOfMap
  <2>1. left \in Map \cup {NoMap} /\ msg.map # NoMap
    BY <1>1, <1>2 DEF Client
  <2>2. /\ Asking(left) \in Client /\ Asking(left).turn = msg.turn /\ Asking(left).via = "http"
        /\ Asking(left).state = "LOADING" /\ Asking(left).wanted = msg.map
    <3> HIDE DEF c
    <3> QED
      BY <1>1, <1>4, <2>1 DEF Client
  <2> HIDE DEF Asking, c
  <2>3. /\ client' = Asking(left) /\ toClient' = Tail(toClient) /\ toServer' = toServer \o <<>>
        /\ UNCHANGED <<server, loads, rejoins, confused>>
    BY <1>6 DEF Reply
  <2>4. ClientOK(client')
    BY <2>1, <2>2, <2>3 DEF ClientOK
  <2>5. TypeOK' /\ toServer' = toServer
    BY <1>1, <2>3, <2>4, NothingFacts, ClientMoves
  <2> QED
    BY <1>1, <2>2, <2>3, <2>5 DEF HeardOfMap
<1> QED
  BY <1>3, <1>5, <1>6

\* The client takes a message or not, and what it says is no READY.
LEMMA TalksKind ==
    ASSUME TypeOK, NEW msgs \in Seq(ToServer), \A m \in In(msgs) : m.type # "READY",
           toClient' = toClient \/ (toClient # <<>> /\ toClient' = Tail(toClient)),
           toServer' = toServer \o msgs, UNCHANGED <<server, loads, rejoins, confused>>,
           ClientOK(client'), client'.turn = client.turn, client'.map = client.map,
           client'.wanted = client.wanted,
           client'.via = client.via \/ (client.via # "none" /\ client'.via # "none")
    PROVE  TypeOK' /\ WentOn
<1>1. TypeOK' /\ In(toServer') = In(toServer) \cup In(msgs)
  BY ClientMoves
<1>2. \A m \in In(toServer') : m \in In(toServer) \/ m.type # "READY"
  BY <1>1
<1> QED
  BY <1>1, <1>2 DEF WentOn

\* The client has its map and says so.
LEMMA FinishedKind ==
    ASSUME TypeOK, client.via # "none",
           client' = Finished(client), toServer' = toServer \o Say("READY", client),
           toClient' = toClient \/ (toClient # <<>> /\ toClient' = Tail(toClient)),
           UNCHANGED <<server, loads, rejoins, confused>>
    PROVE  TypeOK' /\ WentOn
<1>1. ClientOK(client) /\ client.turn \in Nat
  BY TypeParts DEF ClientOK, Client
<1>2. /\ ClientOK(client') /\ client'.turn = client.turn /\ client'.via = "none"
      /\ client'.map = client.wanted
  BY <1>1, FinishedFacts
<1>3. Say("READY", client) \in Seq(ToServer) /\ In(Say("READY", client)) = {Ready(client)}
  BY <1>1, SayFacts DEF Ready
<1>4. Ready(client) = Ready(client')
  BY <1>2 DEF Ready
<1>5. TypeOK' /\ In(toServer') = In(toServer) \cup {Ready(client')}
  BY <1>2, <1>3, <1>4, ClientMoves
<1> QED
  BY <1>2, <1>5 DEF WentOn

LEMMA HttpDoneKind == ASSUME TypeOK, HttpDone PROVE TypeOK' /\ WentOn
<1>1. /\ client.via # "none" /\ client' = Finished(client)
      /\ toServer' = toServer \o Say("READY", client) /\ toClient' = toClient
      /\ UNCHANGED <<server, loads, rejoins, confused>>
  BY DEF HttpDone
<1> QED
  BY <1>1, FinishedKind

LEMMA HttpFailsKind == ASSUME TypeOK, HttpFails PROVE TypeOK' /\ WentOn
<1>1. client \in Client /\ ClientOK(client) /\ client.turn \in Nat /\ client.chunk \in Chunk
  BY TypeParts DEF ClientOK, Client
<1>2. /\ client.via = "http" /\ client' = [client EXCEPT !.via = "server"]
      /\ toServer' = toServer \o Request(client) /\ toClient' = toClient
      /\ UNCHANGED <<server, loads, rejoins, confused>>
  BY DEF HttpFails
<1>3. /\ client' \in Client /\ client'.turn = client.turn /\ client'.map = client.map
      /\ client'.wanted = client.wanted /\ client'.via = "server"
  BY <1>1, <1>2 DEF Client
<1>4. ClientOK(client')
  BY <1>1, <1>2, <1>3 DEF ClientOK
<1>5. Request(client) \in Seq(ToServer) /\ \A m \in In(Request(client)) : m.type # "READY"
  BY <1>1, RequestFacts
<1> QED
  BY <1>2, <1>3, <1>4, <1>5, TalksKind

LEMMA MapDataKind == ASSUME TypeOK, ReceiveMapData PROVE TypeOK' /\ WentOn
<1> DEFINE next == [client EXCEPT !.chunk = @ + 1]
<1>1. toClient # <<>> /\ client \in Client /\ ClientOK(client)
  BY TypeParts, ReceivedMessage DEF ClientOK, ReceiveMapData
<1>2. \/ Reply(client, <<>>)
      \/ client.via = "server" /\ Reply(Finished(client), Say("READY", client))
      \/ client.chunk # NumChunks - 1 /\ Reply(next, Request(next))
  BY DEF ReceiveMapData, Expected
<1>3. CASE Reply(client, <<>>)
  BY <1>1, <1>3, NothingFacts, TalksKind DEF Reply
<1>4. CASE client.via = "server" /\ Reply(Finished(client), Say("READY", client))
  BY <1>1, <1>4, FinishedKind DEF Reply
<1>5. CASE client.chunk # NumChunks - 1 /\ Reply(next, Request(next))
  <2>1. client.chunk + 1 \in Chunk
    BY <1>1, <1>5 DEF Client, Chunk
  <2>2. /\ next \in Client /\ next.turn = client.turn /\ next.map = client.map
        /\ next.wanted = client.wanted /\ next.via = client.via
        /\ next.turn \in Nat /\ next.chunk \in Chunk
    BY <1>1, <2>1 DEF Client
  <2> HIDE DEF next
  <2>3. Request(next) \in Seq(ToServer) /\ \A m \in In(Request(next)) : m.type # "READY"
    BY <2>2, RequestFacts
  <2>4. ClientOK(next)
    BY <1>1, <2>2 DEF ClientOK
  <2>5. /\ client' = next /\ toClient' = Tail(toClient) /\ toServer' = toServer \o Request(next)
        /\ UNCHANGED <<server, loads, rejoins, confused>>
    BY <1>5 DEF Reply
  <2> QED
    BY <1>1, <2>2, <2>3, <2>4, <2>5, TalksKind
<1> QED
  BY <1>2, <1>3, <1>4, <1>5

LEMMA ConReadyKind == ASSUME TypeOK, ReceiveConReady PROVE TypeOK' /\ WentOn
<1>1. toClient # <<>> /\ ClientOK(client) /\ client.turn \in Nat
  BY TypeParts, ReceivedMessage DEF ClientOK, Client, ReceiveConReady
<1>2. /\ Say("START_INFO", client) \in Seq(ToServer)
      /\ \A m \in In(Say("START_INFO", client)) : m.type # "READY"
  BY <1>1, SayFacts
<1>3. /\ client' = client /\ toClient' = Tail(toClient)
      /\ toServer' = toServer \o Say("START_INFO", client)
      /\ UNCHANGED <<server, loads, rejoins, confused>>
  BY DEF ReceiveConReady, Reply
<1> QED
  BY <1>1, <1>2, <1>3, TalksKind

LEMMA ReadyToEnterKind == ASSUME TypeOK, ReceiveReadyToEnter PROVE TypeOK' /\ WentOn
<1> DEFINE c == [client EXCEPT !.received = 0]
<1>1. toClient # <<>> /\ client \in Client /\ ClientOK(client) /\ client.turn \in Nat
  BY TypeParts, ReceivedMessage DEF ClientOK, Client, ReceiveReadyToEnter
<1>2. /\ Say("ENTERGAME", client) \in Seq(ToServer)
      /\ \A m \in In(Say("ENTERGAME", client)) : m.type # "READY"
  BY <1>1, SayFacts
<1>3. /\ c \in Client /\ c.turn = client.turn /\ c.map = client.map /\ c.wanted = client.wanted
      /\ c.via = client.via
  BY <1>1 DEF Client
<1>4. ClientOK(c)
  BY <1>1, <1>3 DEF ClientOK
<1>5. /\ client' = c /\ toClient' = Tail(toClient)
      /\ toServer' = toServer \o Say("ENTERGAME", client)
      /\ UNCHANGED <<server, loads, rejoins, confused>>
  BY DEF ReceiveReadyToEnter, Reply
<1> HIDE DEF c
<1> QED
  BY <1>1, <1>2, <1>3, <1>4, <1>5, TalksKind

LEMMA SnapshotKind == ASSUME TypeOK, ReceiveSnapshot PROVE TypeOK' /\ WentOn
<1>1. client \in Client /\ ClientOK(client)
  BY TypeParts DEF ClientOK
<1> DEFINE state == IF client.received = 1 THEN "ONLINE" ELSE client.state
<1>2. /\ client.received < 2
      /\ client' = [client EXCEPT !.received = client.received + 1, !.state = state]
      /\ UNCHANGED <<server, toClient, toServer, loads, rejoins, confused>>
  BY <1>1 DEF ReceiveSnapshot, Client
<1>3. client.received + 1 \in 0 .. 2 /\ state \in {"LOADING", "ONLINE"}
  BY <1>1, <1>2 DEF Client
<1> HIDE DEF state
<1>4. /\ client' \in Client /\ client'.turn = client.turn /\ client'.map = client.map
      /\ client'.wanted = client.wanted /\ client'.via = client.via
  BY <1>1, <1>2, <1>3 DEF Client
<1>5. ClientOK(client')
  BY <1>1, <1>4 DEF ClientOK
<1>6. toServer' = toServer \o <<>>
  BY <1>2, NothingFacts
<1> QED
  BY <1>2, <1>4, <1>5, <1>6, NothingFacts, TalksKind

\* Every step is of one of these kinds, and keeps the types.
LEMMA NextKind == ASSUME TypeOK, Next PROVE TypeOK' /\ StepKind
<1> USE DEF StepKind
<1>1. CASE ServerStep
  BY <1>1, ClientVerKind, InfoKind, RequestKind, ReadyKind, StartInfoKind, EnterGameKind
     DEF ServerStep
<1>2. CASE ClientStep
  BY <1>2, MapChangeKind, MapDataKind, ConReadyKind, ReadyToEnterKind DEF ClientStep
<1>3. CASE HttpDone \/ HttpFails \/ ReceiveSnapshot
  BY <1>3, HttpDoneKind, HttpFailsKind, SnapshotKind
<1>4. CASE \E map \in Map : LoadMap(map)
  BY <1>4, LoadKind
<1>5. CASE Rejoin
  BY <1>5, RejoinKind
<1> QED
  BY <1>1, <1>2, <1>3, <1>4, <1>5 DEF Next

LEMMA TypeInit == Init => TypeOK
<1> SUFFICES ASSUME Init PROVE TypeOK
  OBVIOUS
<1>1. server \in Server
  <2>1. server \in [turn : {0}, map : Map, state : {"PREAUTH"}, nextMapChunk : {0},
                    isReady : {FALSE}, played : {FALSE}]
    BY DEF Init
  <2>2. {0} \subseteq Nat /\ {"PREAUTH"} \subseteq StateNames /\ {FALSE} \subseteq BOOLEAN
    BY DEF StateNames
  <2>3. server = [turn |-> 0, map |-> server.map, state |-> "PREAUTH", nextMapChunk |-> 0,
                  isReady |-> FALSE, played |-> FALSE] /\ server.map \in Map
    BY <2>1
  <2>4. [turn |-> 0, map |-> server.map, state |-> "PREAUTH", nextMapChunk |-> 0,
         isReady |-> FALSE, played |-> FALSE] \in Server
    BY <2>2, <2>3 DEF Server
  <2> QED
    BY <2>3, <2>4
<1>2. ClientOK(client)
  BY FreshType DEF Init
<1>3. <<>> \in Seq(ToClient)
  OBVIOUS
<1>4. toClient \in Seq(ToClient) /\ toServer \in Seq(ToServer)
  BY <1>3, HelloFacts DEF Init
<1>5. loads \in 0 .. MaxLoads /\ rejoins \in 0 .. MaxRejoin /\ confused \in BOOLEAN
  <2>1. loads = 0 /\ rejoins = 0 /\ confused = FALSE
    BY DEF Init
  <2>2. 0 \in 0 .. MaxLoads /\ 0 \in 0 .. MaxRejoin
    OBVIOUS
  <2> QED
    BY <2>1, <2>2, Zenon
<1> QED
  BY <1>1, <1>2, <1>4, <1>5, TypeParts

\* The types of MapChange hold: a download has a map, a queue only messages of the
\* protocol, and a request is for a chunk of the map.
THEOREM TypeCorrect == Spec => []TypeOK
<1>1. TypeOK /\ [Next]_vars => TypeOK'
  <2>1. TypeOK /\ UNCHANGED vars => TypeOK'
    BY DEF TypeOK, vars
  <2> QED
    BY <2>1, NextKind
<1> QED
  BY <1>1, TypeInit, PTL DEF Spec

-----------------------------------------------------------------------------
(* Queues of messages about maps *)

\* The maps were sent one after the other.
Ascending(q) ==
    \A i, j \in 1 .. Len(q) :
        i < j /\ q[i].type = "MAP_CHANGE" /\ q[j].type = "MAP_CHANGE" => q[i].turn < q[j].turn

\* No map is to be loaded before the game is entered.
NoneBefore(q) ==
    \A j \in 1 .. Len(q) :
        q[j].type = "READY_TO_ENTER" => \A i \in 1 .. Len(q) : i <= j => q[i].type # "MAP_CHANGE"

LEMMA TailKeeps ==
    ASSUME NEW q \in Seq(ToClient), q # <<>>
    PROVE  /\ Ascending(q) => Ascending(Tail(q))
           /\ NoneBefore(q) => NoneBefore(Tail(q))
           /\ Ascending(q) /\ Head(q).type = "MAP_CHANGE" =>
                 \A m \in In(Tail(q)) : m.type = "MAP_CHANGE" => Head(q).turn < m.turn
           /\ NoneBefore(q) /\ Head(q).type = "MAP_CHANGE" =>
                 \A m \in In(q) : m.type # "READY_TO_ENTER"
<1>1. Len(q) \in Nat /\ Len(q) > 0 /\ 1 \in 1 .. Len(q) /\ Head(q) = q[1]
  BY EmptySeq, SMT
<1>2. \A i \in 1 .. Len(Tail(q)) :
          i \in Nat /\ i + 1 \in 1 .. Len(q) /\ 1 < i + 1 /\ Tail(q)[i] = q[i + 1]
  BY <1>1, TailFacts
<1>3. Ascending(q) => Ascending(Tail(q))
  BY <1>2 DEF Ascending
<1>4. NoneBefore(q) => NoneBefore(Tail(q))
  BY <1>2 DEF NoneBefore
<1>5. ASSUME Ascending(q), Head(q).type = "MAP_CHANGE", NEW i \in 1 .. Len(Tail(q)),
             Tail(q)[i].type = "MAP_CHANGE"
      PROVE  Head(q).turn < Tail(q)[i].turn
  BY <1>1, <1>2, <1>5 DEF Ascending
<1>6. ASSUME NoneBefore(q), Head(q).type = "MAP_CHANGE", NEW j \in 1 .. Len(q)
      PROVE  q[j].type # "READY_TO_ENTER"
  <2>1. 1 <= j
    OBVIOUS
  <2> QED
    BY <1>1, <1>6, <2>1 DEF NoneBefore
<1> QED
  BY <1>3, <1>4, <1>5, <1>6 DEF In

LEMMA ConcatKeeps ==
    ASSUME NEW p \in Seq(ToClient), NEW q \in Seq(ToClient), \A m \in In(q) : m.type # "MAP_CHANGE"
    PROVE  /\ Ascending(p) => Ascending(p \o q)
           /\ (\A m \in In(p) : m.type # "MAP_CHANGE") => NoneBefore(p \o q)
           /\ NoneBefore(p) /\ (\A m \in In(q) : m.type # "READY_TO_ENTER") =>
                 NoneBefore(p \o q)
<1>1. /\ Len(p) \in Nat /\ Len(q) \in Nat /\ Len(p \o q) \in Nat
      /\ \A i \in 1 .. Len(p \o q) :
            \/ i \in 1 .. Len(p) /\ (p \o q)[i] = p[i]
            \/ i - Len(p) \in 1 .. Len(q) /\ (p \o q)[i] = q[i - Len(p)]
  BY ConcatFacts
<1>2. \A i \in 1 .. Len(p) : p[i] \in In(p)
  BY DEF In
<1>3. \A i \in 1 .. Len(q) : q[i] \in In(q)
  BY DEF In
<1>4. \A i \in 1 .. Len(p \o q) :
          (p \o q)[i].type = "MAP_CHANGE" => i \in 1 .. Len(p) /\ (p \o q)[i] = p[i]
  BY <1>1, <1>3
<1>5. Ascending(p) => Ascending(p \o q)
  BY <1>4 DEF Ascending
<1>6. ASSUME NoneBefore(p), \A m \in In(q) : m.type # "READY_TO_ENTER"
      PROVE  NoneBefore(p \o q)
  <2>1. \A j \in 1 .. Len(p \o q) :
           (p \o q)[j].type = "READY_TO_ENTER" => j \in 1 .. Len(p) /\ (p \o q)[j] = p[j]
    BY <1>1, <1>3, <1>6
  <2> QED
    BY <1>4, <1>6, <2>1 DEF NoneBefore
<1>7. ASSUME \A m \in In(p) : m.type # "MAP_CHANGE"
      PROVE  NoneBefore(p \o q)
  BY <1>2, <1>4, <1>7 DEF NoneBefore
<1> QED
  BY <1>5, <1>6, <1>7

LEMMA AppendKeeps ==
    ASSUME NEW q \in Seq(ToClient), NEW m \in ToClient, m.type = "MAP_CHANGE"
    PROVE  /\ Ascending(q) /\ (\A n \in In(q) : n.type = "MAP_CHANGE" => n.turn < m.turn) =>
                 Ascending(q \o <<m>>)
           /\ NoneBefore(q) => NoneBefore(q \o <<m>>)
<1>1. /\ <<m>> \in Seq(ToClient) /\ Len(<<m>>) = 1 /\ <<m>>[1] = m /\ Len(q) \in Nat
  OBVIOUS
<1>2. /\ Len(q \o <<m>>) = Len(q) + 1
      /\ \A i \in 1 .. Len(q \o <<m>>) :
            \/ i \in 1 .. Len(q) /\ (q \o <<m>>)[i] = q[i]
            \/ i - Len(q) \in 1 .. Len(<<m>>) /\ (q \o <<m>>)[i] = <<m>>[i - Len(q)]
  BY <1>1, ConcatFacts
<1>3. \A i \in 1 .. Len(q \o <<m>>) :
            \/ i \in 1 .. Len(q) /\ (q \o <<m>>)[i] = q[i]
            \/ i = Len(q) + 1 /\ (q \o <<m>>)[i] = m
  <2> TAKE i \in 1 .. Len(q \o <<m>>)
  <2>1. ASSUME i - Len(q) \in 1 .. Len(<<m>>), (q \o <<m>>)[i] = <<m>>[i - Len(q)]
        PROVE  i = Len(q) + 1 /\ (q \o <<m>>)[i] = m
    <3>1. i - Len(q) = 1 /\ i = Len(q) + 1
      BY <1>1, <1>2, <2>1
    <3> QED
      BY <1>1, <2>1, <3>1
  <2> QED
    BY <1>2, <2>1
<1>4. \A i \in 1 .. Len(q) : q[i] \in In(q)
  BY DEF In
<1> DEFINE r == q \o <<m>>
<1>5. /\ Len(r) = Len(q) + 1 /\ Len(q) \in Nat
      /\ \A i \in 1 .. Len(r) : \/ i \in 1 .. Len(q) /\ r[i] = q[i]
                                \/ i = Len(q) + 1 /\ r[i] = m
  BY <1>1, <1>2, <1>3
<1> HIDE DEF r
<1>6. ASSUME Ascending(q), \A n \in In(q) : n.type = "MAP_CHANGE" => n.turn < m.turn
      PROVE  Ascending(r)
  BY <1>4, <1>5, <1>6 DEF Ascending
<1>7. ASSUME NoneBefore(q) PROVE NoneBefore(r)
  <2>1. m.type # "READY_TO_ENTER"
    OBVIOUS
  <2> QED
    BY <1>5, <1>7, <2>1 DEF NoneBefore
<1> QED
  BY <1>6, <1>7 DEF r

-----------------------------------------------------------------------------
(* The invariant *)

\* Messages are about maps sent no earlier than the one the client was told last,
\* and answer no later one.
TurnInv ==
    /\ client.turn <= server.turn
    /\ \A m \in In(toClient) :
          m.type = "MAP_CHANGE" => client.turn < m.turn /\ m.turn <= server.turn
    /\ Ascending(toClient)
    /\ \A m \in In(toServer) : m.type = "READY" => m.turn <= client.turn

OnServerMap == client.turn = server.turn /\ client.via = "none" /\ client.map = server.map

\* What was said last is about the map of the server.
MapInv ==
    Stage(server.state) >= 3 =>
        /\ \A m \in In(toClient) :
              m.type = "MAP_CHANGE" /\ m.turn = server.turn => m.map = server.map
        /\ client.turn = server.turn /\ client.via # "none" => client.wanted = server.map
        /\ \A m \in In(toServer) : m.type = "READY" /\ m.turn = server.turn => OnServerMap

\* A client whose READY was heard is on the map of the server.
GameInv == Stage(server.state) >= 4 /\ ~confused => OnServerMap

\* A client that may enter has its map.
EnterInv ==
    ~confused =>
        /\ \A m \in In(toClient) : m.type = "READY_TO_ENTER" => MapLoaded
        /\ NoneBefore(toClient)

Inv == TurnInv /\ MapInv /\ GameInv /\ EnterInv

\* The numbers and queues the invariant is about.
LEMMA Ranges ==
    ASSUME TypeOK
    PROVE  /\ client.turn \in Nat /\ server.turn \in Nat /\ server.map \in Map
           /\ Stage(server.state) \in 1 .. 5 /\ confused \in BOOLEAN
           /\ toClient \in Seq(ToClient) /\ toServer \in Seq(ToServer)
           /\ \A m \in In(toClient) :
                 m \in ToClient /\ (m.type = "MAP_CHANGE" => m.map \in Map /\ m.turn \in Nat)
           /\ \A m \in In(toServer) : m.turn \in Nat
<1>1. /\ client.turn \in Nat /\ server.turn \in Nat /\ server.map \in Map
      /\ server.state \in StateNames /\ confused \in BOOLEAN
      /\ toClient \in Seq(ToClient) /\ toServer \in Seq(ToServer)
  BY TypeParts DEF Server, Client, ClientOK
<1>2. (\A m \in In(toClient) : m \in ToClient) /\ \A m \in In(toServer) : m \in ToServer
  BY <1>1 DEF In
<1> QED
  BY <1>1, <1>2, StageRange, ToClientFields, ToServerFields

LEMMA ServedKeeps == ASSUME TypeOK, Inv, Served PROVE Inv'
<1> USE DEF Inv
<1>1. /\ client.turn \in Nat /\ server.turn \in Nat /\ server.map \in Map
      /\ Stage(server.state) \in 1 .. 5 /\ confused \in BOOLEAN
      /\ toClient \in Seq(ToClient) /\ toServer \in Seq(ToServer)
  BY Ranges
<1>2. PICK msgs \in Seq(ToClient) :
          /\ toClient' = toClient \o msgs
          /\ \A m \in In(msgs) :
                m.type # "MAP_CHANGE" /\ (m.type = "READY_TO_ENTER" => Stage(server.state) >= 4)
  BY DEF Served
<1>3. /\ client' = client /\ server'.turn = server.turn /\ server'.map = server.map
      /\ toServer # <<>> /\ toServer' = Tail(toServer) /\ (confused => confused')
  BY DEF Served
<1>4. In(toServer') \subseteq In(toServer) /\ Head(toServer) \in In(toServer)
  BY <1>1, <1>3, TailFacts
<1>5. In(toClient') = In(toClient) \cup In(msgs)
  BY <1>1, <1>2, ConcatFacts
<1>6. TurnInv'
  <2>1. Ascending(toClient')
    BY <1>1, <1>2, ConcatKeeps DEF TurnInv
  <2>2. \A m \in In(toClient') : m.type = "MAP_CHANGE" => m \in In(toClient)
    BY <1>2, <1>5
  <2>3. \A m \in In(toServer') : m \in In(toServer)
    BY <1>4
  <2> QED
    BY <1>3, <2>1, <2>2, <2>3 DEF TurnInv
<1>7. MapInv'
  <2>1. \A m \in In(toClient') : m.type = "MAP_CHANGE" => m \in In(toClient)
    BY <1>2, <1>5
  <2>2. \A m \in In(toServer') : m \in In(toServer)
    BY <1>4
  <2>3. OnServerMap => OnServerMap'
    BY <1>3 DEF OnServerMap
  <2>4. Stage(server'.state) >= 3 => Stage(server.state) >= 3
    BY DEF Served
  <2> QED
    BY <1>3, <2>1, <2>2, <2>3, <2>4 DEF MapInv
<1>8. GameInv'
  <2>1. OnServerMap => OnServerMap'
    BY <1>3 DEF OnServerMap
  <2>2. ASSUME Stage(server'.state) >= 4, ~confused'
        PROVE  OnServerMap
    <3>1. \/ Stage(server.state) >= 4
          \/ /\ Stage(server.state) >= 3
             /\ Head(toServer).type = "READY" /\ Head(toServer).turn = server.turn
      BY <2>2 DEF Served
    <3> QED
      BY <1>3, <1>4, <2>2, <3>1 DEF GameInv, MapInv
  <2> QED
    BY <2>1, <2>2 DEF GameInv
<1>9. EnterInv'
  <2> SUFFICES ASSUME ~confused'
               PROVE  /\ \A m \in In(toClient') : m.type = "READY_TO_ENTER" => MapLoaded
                      /\ NoneBefore(toClient')
    BY <1>3 DEF EnterInv, MapLoaded
  <2>1. ~confused
    BY <1>3
  <2>2. CASE \A m \in In(msgs) : m.type # "READY_TO_ENTER"
    <3>1. NoneBefore(toClient')
      BY <1>1, <1>2, <2>1, <2>2, ConcatKeeps DEF EnterInv
    <3> QED
      BY <1>5, <2>1, <2>2, <3>1 DEF EnterInv
  <2>3. CASE \E m \in In(msgs) : m.type = "READY_TO_ENTER"
    <3>1. Stage(server.state) >= 4
      BY <1>2, <2>3
    <3>2. OnServerMap
      BY <2>1, <3>1 DEF GameInv
    <3>3. MapLoaded
      BY <1>1, <3>2 DEF OnServerMap, MapLoaded
    <3>4. \A m \in In(toClient) : m.type # "MAP_CHANGE"
      <4>1. \A m \in In(toClient) : m.type = "MAP_CHANGE" => m.turn \in Nat
        BY Ranges
      <4>2. client.turn = server.turn
        BY <3>2 DEF OnServerMap
      <4> QED
        BY <1>1, <4>1, <4>2 DEF TurnInv
    <3>5. NoneBefore(toClient')
      BY <1>1, <1>2, <2>1, <3>4, ConcatKeeps DEF EnterInv
    <3> QED
      BY <3>3, <3>5
  <2> QED
    BY <2>2, <2>3
<1> QED
  BY <1>6, <1>7, <1>8, <1>9

LEMMA SentKeeps == ASSUME TypeOK, TypeOK', Inv, Sent PROVE Inv'
<1> USE DEF Inv
<1> DEFINE msg == [type |-> "MAP_CHANGE", map |-> server'.map, turn |-> server'.turn]
<1>1. /\ client.turn \in Nat /\ server.turn \in Nat /\ toClient \in Seq(ToClient)
      /\ \A m \in In(toClient) : m.type = "MAP_CHANGE" => m.turn \in Nat
      /\ \A m \in In(toServer) : m.turn \in Nat
  BY Ranges
<1>2. server'.map \in Map /\ server'.turn \in Nat
  BY StageValues DEF TypeOK
<1>3. msg \in ToClient /\ <<msg>> \in Seq(ToClient) /\ In(<<msg>>) = {msg}
  <2>1. msg \in [type : {"MAP_CHANGE"}, map : Map, turn : Nat]
    BY <1>2
  <2>2. msg \in ToClient
    BY <2>1 DEF ToClient
  <2> HIDE DEF msg
  <2> QED
    BY <2>2, OneMessage
<1>4. /\ client' = client /\ In(toServer') \subseteq In(toServer) /\ confused' = confused
      /\ server'.turn = server.turn + 1 /\ server'.state = "CONNECTING"
      /\ toClient' = toClient \o <<msg>>
      /\ msg.type = "MAP_CHANGE" /\ msg.map = server'.map /\ msg.turn = server.turn + 1
  BY DEF Sent
<1> HIDE DEF msg
<1>5. In(toClient') = In(toClient) \cup {msg}
  <2>1. In(toClient \o <<msg>>) = In(toClient) \cup In(<<msg>>)
    <3>1. toClient \in Seq(ToClient) /\ <<msg>> \in Seq(ToClient)
      BY <1>1, <1>3
    <3> QED
      BY ONLY <3>1, ConcatFacts, ZenonT(30)
  <2>2. toClient' = toClient \o <<msg>> /\ In(<<msg>>) = {msg}
    BY <1>3, <1>4
  <2> QED
    BY ONLY <2>1, <2>2
<1>6. \A m \in In(toClient) : m.type = "MAP_CHANGE" => m.turn < msg.turn
  BY <1>1, <1>4 DEF TurnInv
<1>7. TurnInv'
  <2>1. Ascending(toClient')
    BY <1>1, <1>3, <1>4, <1>6, AppendKeeps DEF TurnInv
  <2>2. \A m \in In(toClient') :
           m.type = "MAP_CHANGE" => client.turn < m.turn /\ m.turn <= server.turn + 1
    BY <1>1, <1>4, <1>5 DEF TurnInv
  <2>3. client.turn <= server.turn + 1
    BY <1>1 DEF TurnInv
  <2>4. \A m \in In(toServer') : m.type = "READY" => m.turn <= client.turn
    BY <1>4 DEF TurnInv
  <2> QED
    BY <1>4, <2>1, <2>2, <2>3, <2>4 DEF TurnInv
<1>8. MapInv'
  <2>1. \A m \in In(toClient') : m.type = "MAP_CHANGE" /\ m.turn = server'.turn => m.map = server'.map
    BY <1>1, <1>4, <1>5, <1>6
  <2>2. client'.turn # server'.turn
    BY <1>1, <1>4 DEF TurnInv
  <2>3. \A m \in In(toServer') : m.type = "READY" => m.turn # server'.turn
    BY <1>1, <1>4 DEF TurnInv
  <2> QED
    BY <2>1, <2>2, <2>3 DEF MapInv
<1>9. GameInv'
  BY <1>4, StageValues DEF GameInv
<1>10. EnterInv'
  <2>1. \A m \in In(toClient') : m.type = "READY_TO_ENTER" => m \in In(toClient)
    BY <1>4, <1>5
  <2>2. NoneBefore(toClient) => NoneBefore(toClient')
    BY <1>1, <1>3, <1>4, AppendKeeps
  <2> QED
    BY <1>4, <2>1, <2>2 DEF EnterInv, MapLoaded
<1> QED
  BY <1>7, <1>8, <1>9, <1>10

LEMMA ReplacedKeeps == ASSUME TypeOK, Inv, Replaced PROVE Inv'
<1> USE DEF Inv
<1>1. /\ client' = client /\ toServer' = toServer /\ toClient' = toClient /\ confused' = confused
      /\ server'.turn = server.turn /\ server'.state = server.state /\ Stage(server.state) < 3
      /\ Stage(server.state) \in 1 .. 5
  BY Ranges DEF Replaced
<1>2. ~(Stage(server'.state) >= 3) /\ ~(Stage(server'.state) >= 4)
  BY <1>1
<1>3. TurnInv'
  BY <1>1 DEF TurnInv
<1>4. EnterInv'
  BY <1>1 DEF EnterInv, MapLoaded
<1>5. MapInv' /\ GameInv'
  BY <1>2 DEF MapInv, GameInv
<1> QED
  BY <1>3, <1>4, <1>5

LEMMA CameBackKeeps == ASSUME TypeOK, Inv, CameBack PROVE Inv'
<1> USE DEF Inv
<1> DEFINE msg == [type |-> "MAP_CHANGE", map |-> server'.map, turn |-> server'.turn]
<1>1. /\ server.turn \in Nat /\ Stage(server.state) \in 1 .. 5 /\ confused \in BOOLEAN
  BY Ranges
<1>2. /\ client'.turn = 0 /\ client'.via = "none"
      /\ server'.turn = server.turn + 1 /\ server'.map = server.map /\ server'.state = server.state
      /\ toClient' = <<msg>> /\ (\A m \in In(toServer') : m.type # "READY")
      /\ (Stage(server.state) >= 4 => confused')
      /\ msg.type = "MAP_CHANGE" /\ msg.map = server'.map /\ msg.turn = server'.turn
  BY DEF CameBack
<1> HIDE DEF msg
<1>3. In(toClient') = {msg} /\ Len(toClient') = 1 /\ toClient'[1] = msg
  BY <1>2, OneMessage
<1>4. \A i \in 1 .. Len(toClient') : i = 1 /\ toClient'[i] = msg
  BY <1>3
<1>5. TurnInv'
  <2>1. Ascending(toClient')
    BY <1>4 DEF Ascending
  <2>2. client'.turn <= server'.turn /\ client'.turn < server'.turn /\ server'.turn <= server'.turn
    BY <1>1, <1>2
  <2> QED
    BY <1>2, <1>3, <2>1, <2>2 DEF TurnInv
<1>6. MapInv'
  BY <1>2, <1>3 DEF MapInv
<1>7. GameInv'
  BY <1>2 DEF GameInv
<1>8. EnterInv'
  <2>1. NoneBefore(toClient')
    BY <1>2, <1>4 DEF NoneBefore
  <2> QED
    BY <1>2, <1>3, <2>1 DEF EnterInv
<1> QED
  BY <1>5, <1>6, <1>7, <1>8

LEMMA HeardOfMapKeeps == ASSUME TypeOK, Inv, HeardOfMap PROVE Inv'
<1> USE DEF Inv
<1>1. /\ client.turn \in Nat /\ server.turn \in Nat /\ toClient \in Seq(ToClient)
      /\ Stage(server.state) \in 1 .. 5
      /\ \A m \in In(toClient) : m.type = "MAP_CHANGE" => m.map \in Map /\ m.turn \in Nat
      /\ \A m \in In(toServer) : m.turn \in Nat
  BY Ranges
<1> DEFINE msg == Head(toClient)
<1>2. /\ server' = server /\ confused' = confused /\ toClient # <<>> /\ toClient' = Tail(toClient)
      /\ msg.type = "MAP_CHANGE" /\ client'.turn = msg.turn
      /\ In(toServer') \subseteq In(toServer) \cup {Ready(client')}
      /\ \/ client'.via = "none" /\ client'.map = msg.map
         \/ /\ client'.via # "none" /\ client'.wanted = msg.map
            /\ In(toServer') \subseteq In(toServer)
  BY DEF HeardOfMap
<1>3. msg \in In(toClient) /\ In(toClient') \subseteq In(toClient)
  BY <1>1, <1>2, TailFacts
<1> HIDE DEF msg
<1>4. /\ client.turn < msg.turn /\ msg.turn <= server.turn /\ msg.turn \in Nat /\ msg.map \in Map
      /\ Stage(server.state) >= 3 /\ msg.turn = server.turn => msg.map = server.map
  BY <1>1, <1>2, <1>3 DEF TurnInv, MapInv
<1>5. /\ Ascending(toClient')
      /\ \A m \in In(toClient') : m.type = "MAP_CHANGE" => msg.turn < m.turn
      /\ NoneBefore(toClient) => \A m \in In(toClient) : m.type # "READY_TO_ENTER"
      /\ NoneBefore(toClient) => NoneBefore(toClient')
  BY <1>1, <1>2, TailKeeps DEF TurnInv, msg
<1>6. \A m \in In(toServer) : m.type = "READY" => m.turn < msg.turn
  BY <1>1, <1>4 DEF TurnInv
<1>7. Ready(client').turn = msg.turn
  BY <1>2 DEF Ready
<1>8. TurnInv'
  <2>1. \A m \in In(toClient') : m.type = "MAP_CHANGE" => m.turn <= server.turn
    BY <1>3 DEF TurnInv
  <2>2. \A m \in In(toServer') : m.type = "READY" => m.turn <= msg.turn
    BY <1>1, <1>2, <1>4, <1>6, <1>7
  <2> QED
    BY <1>2, <1>4, <1>5, <2>1, <2>2 DEF TurnInv
<1>9. MapInv'
  <2> SUFFICES ASSUME Stage(server.state) >= 3
               PROVE  /\ \A m \in In(toClient') :
                            m.type = "MAP_CHANGE" /\ m.turn = server.turn => m.map = server.map
                      /\ client'.turn = server.turn /\ client'.via # "none" =>
                            client'.wanted = server.map
                      /\ \A m \in In(toServer') :
                            m.type = "READY" /\ m.turn = server.turn => OnServerMap'
    BY <1>2 DEF MapInv
  <2>1. \A m \in In(toClient') :
            m.type = "MAP_CHANGE" /\ m.turn = server.turn => m.map = server.map
    BY <1>3 DEF MapInv
  <2>2. client'.turn = server.turn /\ client'.via # "none" => client'.wanted = server.map
    BY <1>2, <1>4
  <2>3. ASSUME NEW m \in In(toServer'), m.type = "READY", m.turn = server.turn
        PROVE  OnServerMap'
    <3>1. m \notin In(toServer)
      BY <1>1, <1>4, <1>6, <2>3
    <3>2. m = Ready(client') /\ client'.via = "none" /\ client'.map = msg.map
      BY <1>2, <2>3, <3>1
    <3>3. msg.turn = server.turn
      BY <1>7, <2>3, <3>2
    <3> QED
      BY <1>2, <1>4, <3>2, <3>3 DEF OnServerMap
  <2> QED
    BY <2>1, <2>2, <2>3
<1>10. GameInv'
  <2>1. Stage(server.state) >= 4 /\ ~confused => client.turn = server.turn
    BY DEF GameInv, OnServerMap
  <2> QED
    BY <1>1, <1>2, <1>4, <2>1 DEF GameInv
<1>11. EnterInv'
  BY <1>2, <1>3, <1>5 DEF EnterInv
<1> QED
  BY <1>8, <1>9, <1>10, <1>11

LEMMA WentOnKeeps == ASSUME TypeOK, Inv, WentOn PROVE Inv'
<1> USE DEF Inv
<1>1. /\ client.turn \in Nat /\ server.turn \in Nat /\ toClient \in Seq(ToClient)
      /\ Stage(server.state) \in 1 .. 5
  BY Ranges
<1>2. /\ server' = server /\ confused' = confused /\ client'.turn = client.turn
      /\ toClient' = toClient \/ (toClient # <<>> /\ toClient' = Tail(toClient))
  BY DEF WentOn
<1>3. /\ In(toClient') \subseteq In(toClient)
      /\ Ascending(toClient) => Ascending(toClient')
      /\ NoneBefore(toClient) => NoneBefore(toClient')
  <2>1. ASSUME toClient # <<>>
        PROVE  /\ In(Tail(toClient)) \subseteq In(toClient)
               /\ Ascending(toClient) => Ascending(Tail(toClient))
               /\ NoneBefore(toClient) => NoneBefore(Tail(toClient))
    BY <1>1, <2>1, TailFacts, TailKeeps
  <2> QED
    BY <1>2, <2>1
<1> DEFINE Talks == \A m \in In(toServer') : m \in In(toServer) \/ m.type # "READY"
           Idle == /\ client'.via = client.via /\ client'.map = client.map
                   /\ client'.wanted = client.wanted /\ Talks
           Loads == /\ client.via # "none" /\ client'.via # "none"
                    /\ client'.wanted = client.wanted /\ Talks
           Done == /\ client.via # "none" /\ client'.via = "none" /\ client'.map = client.wanted
                   /\ In(toServer') \subseteq In(toServer) \cup {Ready(client')}
<1>4. Idle \/ Loads \/ Done
  BY DEF WentOn
<1>5. Ready(client').turn = client.turn
  BY <1>2 DEF Ready
<1>6. TurnInv'
  <2>1. \A m \in In(toServer') : m.type = "READY" => m \in In(toServer) \/ m.turn = client.turn
    BY <1>4, <1>5
  <2>2. \A m \in In(toServer') : m.type = "READY" => m.turn <= client.turn
    BY <1>1, <2>1 DEF TurnInv
  <2> QED
    BY <1>2, <1>3, <2>2 DEF TurnInv
<1>7. client.via # "none" /\ ~confused => ~(Stage(server.state) >= 4)
  BY DEF GameInv, OnServerMap
<1>8. GameInv'
  <2>1. ASSUME Stage(server.state) >= 4, ~confused
        PROVE  OnServerMap'
    <3>1. OnServerMap /\ client.via = "none"
      BY <2>1 DEF GameInv, OnServerMap
    <3>2. client'.via = client.via /\ client'.map = client.map
      BY <1>4, <3>1
    <3> QED
      BY <1>2, <3>1, <3>2 DEF OnServerMap
  <2> QED
    BY <1>2, <2>1 DEF GameInv
<1>9. MapInv'
  <2> SUFFICES ASSUME Stage(server.state) >= 3
               PROVE  /\ \A m \in In(toClient') :
                            m.type = "MAP_CHANGE" /\ m.turn = server.turn => m.map = server.map
                      /\ client'.turn = server.turn /\ client'.via # "none" =>
                            client'.wanted = server.map
                      /\ \A m \in In(toServer') :
                            m.type = "READY" /\ m.turn = server.turn => OnServerMap'
    BY <1>2 DEF MapInv
  <2>1. \A m \in In(toClient') :
            m.type = "MAP_CHANGE" /\ m.turn = server.turn => m.map = server.map
    BY <1>3 DEF MapInv
  <2>2. client.turn = server.turn /\ client.via # "none" => client.wanted = server.map
    BY DEF MapInv
  <2>3. client'.turn = server.turn /\ client'.via # "none" => client'.wanted = server.map
    BY <1>2, <1>4, <2>2
  <2>4. ASSUME NEW m \in In(toServer'), m.type = "READY", m.turn = server.turn
        PROVE  OnServerMap'
    <3>1. CASE m \in In(toServer)
      <4>1. OnServerMap /\ client.via = "none"
        BY <2>4, <3>1 DEF MapInv, OnServerMap
      <4>2. client'.via = client.via /\ client'.map = client.map
        BY <1>4, <4>1
      <4> QED
        BY <1>2, <4>1, <4>2 DEF OnServerMap
    <3>2. CASE m \notin In(toServer)
      <4>1. Done /\ m = Ready(client')
        BY <1>4, <2>4, <3>2
      <4>2. client.turn = server.turn
        BY <1>5, <2>4, <4>1
      <4> QED
        BY <1>2, <2>2, <4>1, <4>2 DEF OnServerMap
    <3> QED
      BY <3>1, <3>2
  <2> QED
    BY <2>1, <2>3, <2>4
<1>10. EnterInv'
  <2>1. ASSUME ~confused, NEW m \in In(toClient'), m.type = "READY_TO_ENTER"
        PROVE  MapLoaded'
    <3>1. MapLoaded /\ client.via = "none"
      BY <1>3, <2>1 DEF EnterInv, MapLoaded
    <3>2. client'.via = client.via /\ client'.map = client.map
      BY <1>4, <3>1
    <3> QED
      BY <3>1, <3>2 DEF MapLoaded
  <2> QED
    BY <1>2, <1>3, <2>1 DEF EnterInv
<1> QED
  BY <1>6, <1>8, <1>9, <1>10

LEMMA InvInit == Init => Inv
<1> SUFFICES ASSUME Init PROVE Inv
  OBVIOUS
<1>1. server.turn = 0 /\ server.state = "PREAUTH"
  BY DEF Init
<1>2. client.turn = 0
  BY DEF Init, Fresh
<1>3. Len(toClient) = 0 /\ In(toClient) = {} /\ \A m \in In(toServer) : m.type # "READY"
  BY NoMessage, HelloFacts DEF Init
<1>4. Ascending(toClient) /\ NoneBefore(toClient)
  BY <1>3 DEF Ascending, NoneBefore
<1>5. TurnInv
  BY <1>1, <1>2, <1>3, <1>4 DEF TurnInv
<1>6. MapInv /\ GameInv
  BY <1>1, StageValues DEF MapInv, GameInv
<1>7. EnterInv
  BY <1>3, <1>4 DEF EnterInv
<1> QED
  BY <1>5, <1>6, <1>7 DEF Inv

LEMMA InvCorrect == Spec => [](TypeOK /\ Inv)
<1>1. TypeOK /\ Inv /\ [Next]_vars => (TypeOK /\ Inv)'
  <2>1. ASSUME TypeOK, Inv, Next PROVE TypeOK' /\ Inv'
    <3>1. TypeOK' /\ StepKind
      BY <2>1, NextKind
    <3> QED
      BY <2>1, <3>1, ServedKeeps, SentKeeps, ReplacedKeeps, CameBackKeeps, HeardOfMapKeeps,
         WentOnKeeps DEF StepKind
  <2>2. ASSUME TypeOK, Inv, UNCHANGED vars PROVE TypeOK' /\ Inv'
    <3>1. TypeOK'
      BY <2>2 DEF TypeOK, vars
    <3>2. Inv'
      BY <2>2 DEF Inv, TurnInv, MapInv, GameInv, EnterInv, OnServerMap, MapLoaded, vars
    <3> QED
      BY <3>1, <3>2
  <2> QED
    BY <2>1, <2>2
<1> QED
  BY <1>1, TypeInit, InvInit, PTL DEF Spec

\* A client that the server has in the game has loaded the map of that game, unless
\* the server has taken a message for the wrong map (OnNetMsgReady, SendMap).
THEOREM InGameOnMapCorrect == Spec => []InGameOnMap
<1>1. Inv => InGameOnMap
  BY StageValues DEF Inv, GameInv, OnServerMap, InGameOnMap
<1> QED
  BY <1>1, InvCorrect, PTL

\* The client enters the game (CClient::EnterGame) only with its map loaded.
THEOREM EntersOnLoadedMapCorrect == Spec => EntersOnLoadedMap
<1>1. TypeOK /\ Inv => [ReceiveReadyToEnter /\ ~confused => MapLoaded]_vars
  <2>1. ASSUME TypeOK, Inv, ReceiveReadyToEnter, ~confused PROVE MapLoaded
    <3>1. Head(toClient).type = "READY_TO_ENTER" /\ toClient # <<>>
      BY <2>1 DEF ReceiveReadyToEnter, Receives
    <3>2. Head(toClient) \in In(toClient)
      BY <2>1, <3>1, Ranges, TailFacts
    <3> QED
      BY <2>1, <3>1, <3>2 DEF Inv, EnterInv
  <2> QED
    BY <2>1
<1> QED
  BY <1>1, InvCorrect, PTL DEF EntersOnLoadedMap

-----------------------------------------------------------------------------
(* Counting messages *)

\* How many of the messages a to b are in M.
Count(q, M, a, b) == Cardinality({i \in a .. b : q[i] \in M})

LEMMA CountRange ==
    ASSUME NEW q, NEW M, NEW a \in Int, NEW b \in Int, a <= b + 1
    PROVE  /\ IsFiniteSet({i \in a .. b : q[i] \in M})
           /\ Count(q, M, a, b) \in 0 .. b - a + 1
<1>1. IsFiniteSet(a .. b) /\ Cardinality(a .. b) = b - a + 1
  BY FS_Interval
<1>2. {i \in a .. b : q[i] \in M} \subseteq a .. b
  OBVIOUS
<1>3. /\ IsFiniteSet({i \in a .. b : q[i] \in M})
      /\ Cardinality({i \in a .. b : q[i] \in M}) <= Cardinality(a .. b)
  BY <1>1, <1>2, FS_Subset
<1>4. Cardinality({i \in a .. b : q[i] \in M}) \in Nat
  BY <1>3, FS_CardinalityType
<1> QED
  BY <1>1, <1>3, <1>4 DEF Count

LEMMA CountType ==
    ASSUME NEW q, NEW M, NEW a \in Int, NEW b \in Int, a <= b + 1
    PROVE  Count(q, M, a, b) \in Nat
<1>1. Count(q, M, a, b) \in 0 .. b - a + 1
  BY CountRange
<1> QED
  BY <1>1

LEMMA CountSplit ==
    ASSUME NEW q, NEW M, NEW a \in Int, NEW b \in Int, NEW c \in Int, a <= b + 1, b <= c
    PROVE  Count(q, M, a, c) = Count(q, M, a, b) + Count(q, M, b + 1, c)
<1> DEFINE S == {i \in a .. b : q[i] \in M}
           T == {i \in b + 1 .. c : q[i] \in M}
<1>1. IsFiniteSet(S) /\ IsFiniteSet(T)
  <2>1. b + 1 \in Int /\ b + 1 <= c + 1
    OBVIOUS
  <2>2. IsFiniteSet(S)
    BY CountRange
  <2>3. IsFiniteSet(T)
    BY <2>1, CountRange
  <2> QED
    BY <2>2, <2>3
<1>2. {i \in a .. c : q[i] \in M} = S \cup T /\ S \cap T = {}
  <2>1. \A i : i \in a .. c <=> i \in a .. b \/ i \in b + 1 .. c
    OBVIOUS
  <2>2. \A i : ~(i \in a .. b /\ i \in b + 1 .. c)
    OBVIOUS
  <2> QED
    BY <2>1, <2>2
<1>3. Cardinality(S \cup T) = Cardinality(S) + Cardinality(T)
  <2> HIDE DEF S, T
  <2>1. Cardinality(S \cup T) = Cardinality(S) + Cardinality(T) - Cardinality(S \cap T)
    BY <1>1, FS_Union
  <2>2. Cardinality(S) \in Nat /\ Cardinality(T) \in Nat /\ Cardinality(S \cap T) = 0
    BY <1>1, <1>2, FS_EmptySet, FS_CardinalityType
  <2> QED
    BY <2>1, <2>2
<1> QED
  BY <1>2, <1>3 DEF Count

\* The messages a to b of p are d places further on in q.
Moved(p, q, a, b, d) == a <= b + 1 /\ \A i \in a .. b : p[i] = q[i + d]

LEMMA CountMoved ==
    ASSUME NEW p, NEW q, NEW M, NEW a \in Int, NEW b \in Int, NEW d \in Int, Moved(p, q, a, b, d)
    PROVE  Count(p, M, a, b) = Count(q, M, a + d, b + d)
<1> DEFINE S == {i \in a .. b : p[i] \in M}
           T == {i \in a + d .. b + d : q[i] \in M}
           f == [i \in S |-> i + d]
<1> USE DEF Moved
<1>1. IsFiniteSet(S)
  BY CountRange
<1>2. \A i \in S : i + d \in T
  OBVIOUS
<1>3. \A j \in T : j - d \in S /\ j = (j - d) + d
  <2> TAKE j \in T
  <2>1. j \in a + d .. b + d /\ q[j] \in M /\ j - d \in a .. b /\ j = (j - d) + d
    OBVIOUS
  <2>2. p[j - d] = q[(j - d) + d]
    BY <2>1
  <2> QED
    BY <2>1, <2>2
<1>4. \A i, j \in S : i + d = j + d => i = j
  OBVIOUS
<1>5. IsFiniteSet(T)
  <2>1. a + d \in Int /\ b + d \in Int /\ a + d <= b + d + 1
    OBVIOUS
  <2> QED
    BY <2>1, CountRange
<1>6. Cardinality(T) = Cardinality(S)
  <2> HIDE DEF S, T
  <2>1. f \in [S -> T] /\ \A i, j \in S : f[i] = f[j] => i = j
    BY <1>2, <1>4
  <2>2. \A j \in T : \E i \in S : f[i] = j
    BY <1>3
  <2> HIDE DEF f
  <2>3. f \in Injection(S, T) /\ f \in Surjection(S, T)
    BY <2>1, <2>2 DEF Injection, Surjection, IsInjective
  <2> QED
    BY <1>5, <2>3, FS_Injection
<1> QED
  BY <1>6 DEF Count

LEMMA CountNone ==
    ASSUME NEW q, NEW M, NEW a \in Int, NEW b \in Int, \A i \in a .. b : q[i] \notin M
    PROVE  Count(q, M, a, b) = 0
<1>1. {i \in a .. b : q[i] \in M} = {}
  OBVIOUS
<1> QED
  BY <1>1, FS_EmptySet DEF Count

\* A queue none of whose messages is of a kind counts none of that kind.
LEMMA CountNoneOf ==
    ASSUME NEW T, NEW q \in Seq(T), NEW M, In(q) \cap M = {}
    PROVE  Count(q, M, 1, Len(q)) = 0
<1>1. \A i \in 1 .. Len(q) : q[i] \in In(q)
  BY DEF In
<1>2. \A i \in 1 .. Len(q) : q[i] \notin M
  BY <1>1
<1>3. 1 \in Int /\ Len(q) \in Int
  OBVIOUS
<1> QED
  BY <1>2, <1>3, CountNone

LEMMA CountOne ==
    ASSUME NEW q, NEW M, NEW a \in Int
    PROVE  Count(q, M, a, a) = IF q[a] \in M THEN 1 ELSE 0
<1>1. CASE q[a] \in M
  <2>1. {i \in a .. a : q[i] \in M} = {a}
    BY <1>1
  <2> QED
    BY <1>1, <2>1, FS_Singleton DEF Count
<1>2. CASE q[a] \notin M
  BY <1>2, CountNone
<1> QED
  BY <1>1, <1>2

\* The messages of a queue that loses its first.
LEMMA CountTail ==
    ASSUME NEW S, NEW q \in Seq(S), q # <<>>, NEW M, NEW a \in 1 .. Len(q), NEW b \in 0 .. Len(q) - 1,
           a <= b + 1
    PROVE  Count(Tail(q), M, a, b) = Count(q, M, a + 1, b + 1)
<1>1. Len(q) \in Nat /\ a \in Int /\ b \in Int
  OBVIOUS
<1>2. \A i \in a .. b : Tail(q)[i] = q[i + 1]
  <2>1. \A i \in 1 .. Len(Tail(q)) : Tail(q)[i] = q[i + 1]
    BY TailFacts
  <2>2. Len(Tail(q)) = Len(q) - 1
    BY TailFacts
  <2>3. a .. b \subseteq 1 .. Len(Tail(q))
    BY <1>1, <2>2
  <2> QED
    BY <2>1, <2>3
<1>3. Moved(Tail(q), q, a, b, 1) /\ 1 \in Int
  BY <1>2 DEF Moved
<1> QED
  BY <1>1, <1>3, CountMoved

\* The messages of a queue that gets more.
LEMMA CountConcat ==
    ASSUME NEW S, NEW p \in Seq(S), NEW q \in Seq(S), NEW M, NEW a \in 1 .. Len(p) + 1
    PROVE  Count(p \o q, M, a, Len(p \o q)) = Count(p, M, a, Len(p)) + Count(q, M, 1, Len(q))
<1>1. /\ Len(p) \in Nat /\ Len(q) \in Nat /\ Len(p \o q) = Len(p) + Len(q)
      /\ \A i \in 1 .. Len(p) : (p \o q)[i] = p[i]
      /\ \A i \in 1 .. Len(q) : (p \o q)[i + Len(p)] = q[i]
  <2>1. Len(p) \in Nat /\ Len(q) \in Nat /\ Len(p \o q) = Len(p) + Len(q)
    BY ConcatFacts
  <2>2. \A i \in 1 .. Len(p) + Len(q) : (p \o q)[i] = IF i <= Len(p) THEN p[i] ELSE q[i - Len(p)]
    BY ConcatProperties
  <2>3. \A i \in 1 .. Len(p) : i \in 1 .. Len(p) + Len(q) /\ i <= Len(p)
    BY <2>1
  <2>4. \A i \in 1 .. Len(q) :
           i + Len(p) \in 1 .. Len(p) + Len(q) /\ ~(i + Len(p) <= Len(p)) /\ i + Len(p) - Len(p) = i
    BY <2>1
  <2>5. \A i \in 1 .. Len(q) : (p \o q)[i + Len(p)] = q[i]
    <3> TAKE i \in 1 .. Len(q)
    <3> QED
      BY <2>2, <2>4
  <2> QED
    BY <2>1, <2>2, <2>3, <2>5
<1>2. ASSUME NEW b \in a - 1 .. Len(p)
      PROVE  Count(p \o q, M, a, b) = Count(p, M, a, b)
  <2>1. \A i \in a .. b : (p \o q)[i] = p[i + 0]
    BY <1>1
  <2>2. a \in Int /\ b \in Int /\ 0 \in Int /\ a <= b + 1 /\ a + 0 = a /\ b + 0 = b
    BY <1>1
  <2>3. Moved(p \o q, p, a, b, 0)
    BY <2>1, <2>2 DEF Moved
  <2>4. Count(p \o q, M, a, b) = Count(p, M, a + 0, b + 0)
    BY <2>2, <2>3, CountMoved
  <2> QED
    BY <2>2, <2>4
<1>3. Count(p \o q, M, a, Len(p \o q)) =
          Count(p \o q, M, a, Len(p)) + Count(p \o q, M, Len(p) + 1, Len(p \o q))
  BY <1>1, CountSplit
<1>4. Count(q, M, 1, Len(q)) = Count(p \o q, M, Len(p) + 1, Len(p \o q))
  <2>1. \A i \in 1 .. Len(q) : q[i] = (p \o q)[i + Len(p)]
    BY <1>1
  <2>2. Count(q, M, 1, Len(q)) = Count(p \o q, M, 1 + Len(p), Len(q) + Len(p))
    <3>1. 1 \in Int /\ Len(q) \in Int /\ Len(p) \in Int /\ 1 <= Len(q) + 1
      BY <1>1
    <3>2. Moved(q, p \o q, 1, Len(q), Len(p))
      BY <2>1, <3>1 DEF Moved
    <3> QED
      BY <3>1, <3>2, CountMoved
  <2>3. 1 + Len(p) = Len(p) + 1 /\ Len(q) + Len(p) = Len(p \o q)
    BY <1>1
  <2> QED
    BY <2>2, <2>3
<1>5. Len(p) \in a - 1 .. Len(p)
  BY <1>1
<1> QED
  BY <1>2, <1>3, <1>4, <1>5

LEMMA CountStays ==
    ASSUME NEW S, NEW p \in Seq(S), NEW q \in Seq(S), NEW M, NEW b \in 0 .. Len(p)
    PROVE  Count(p \o q, M, 1, b) = Count(p, M, 1, b)
<1>1. Len(p) \in Nat /\ Len(q) \in Nat
  OBVIOUS
<1>2. \A i \in 1 .. Len(p) + Len(q) : (p \o q)[i] = IF i <= Len(p) THEN p[i] ELSE q[i - Len(p)]
  BY ConcatProperties
<1>3. 1 \in Int /\ b \in Int /\ 0 \in Int /\ 1 <= b + 1 /\ 1 + 0 = 1 /\ b + 0 = b
  BY <1>1
<1>4. \A i \in 1 .. b : (p \o q)[i] = p[i + 0]
  BY <1>1, <1>2
<1>5. Moved(p \o q, p, 1, b, 0)
  BY <1>3, <1>4 DEF Moved
<1>6. Count(p \o q, M, 1, b) = Count(p, M, 1 + 0, b + 0)
  BY <1>3, <1>5, CountMoved
<1> QED
  BY <1>3, <1>6

-----------------------------------------------------------------------------
(* What a step does to a download *)

FirstRequest == {m \in ToServer : m.type = "REQUEST_MAP_DATA" /\ m.chunk = 0}

LaterRequest == {m \in ToServer : m.type = "REQUEST_MAP_DATA" /\ m.chunk # 0}

MapChunk == {m \in ToClient : m.type = "MAP_DATA"}

FirstChunk == {m \in MapChunk : m.chunk = 0}

MapChanges == {m \in ToClient : m.type = "MAP_CHANGE"}

\* The chunks that may be on their way for one request of the first chunk.
Batch == Window + 1

\* What a request brings; if it is for the chunk the server is at, it is of this turn.
Brings(m, msgs) ==
    /\ \/ m \in FirstRequest /\ Count(msgs, MapChunk, 1, Len(msgs)) <= Batch
       \/ /\ m \in LaterRequest /\ Count(msgs, MapChunk, 1, Len(msgs)) <= 1
          /\ In(msgs) \cap FirstChunk = {}
       \/ In(msgs) \cap MapChunk = {} /\ server'.nextMapChunk = server.nextMapChunk
    /\ server'.nextMapChunk # server.nextMapChunk => server.nextMapChunk = m.chunk
    /\ m \in FirstRequest \cup LaterRequest /\ server.nextMapChunk = m.chunk =>
          confused' \/ m.turn = server.turn

\* The server handles a message.
DownloadServed ==
    /\ client' = client
    /\ toServer # <<>> /\ toServer' = Tail(toServer)
    /\ server'.turn = server.turn
    /\ confused => confused'
    /\ \E msgs \in Seq(ToClient) :
          /\ toClient' = toClient \o msgs
          /\ In(msgs) \cap MapChanges = {}
          /\ Brings(Head(toServer), msgs)

\* The server sends a map.
DownloadEnded ==
    /\ client' = client /\ confused' = confused
    /\ toServer' = toServer \/ (toServer # <<>> /\ toServer' = Tail(toServer) /\ Head(toServer).type = "INFO")
    /\ server'.turn = server.turn + 1 /\ server'.nextMapChunk = 0
    /\ \E m \in MapChanges : toClient' = toClient \o <<m>>

DownloadKept ==
    /\ client' = client /\ confused' = confused /\ toServer' = toServer /\ toClient' = toClient
    /\ server'.turn = server.turn /\ server'.nextMapChunk = server.nextMapChunk

\* The client is another process.
DownloadForgotten ==
    /\ client'.via = "none" /\ client'.turn = 0 /\ toServer' = Hello
    /\ server'.nextMapChunk = 0
    /\ \E m \in MapChanges : toClient' = <<m>>

\* The client hears of a map.
DownloadNamed ==
    /\ server' = server /\ confused' = confused
    /\ toClient # <<>> /\ toClient' = Tail(toClient) /\ Head(toClient) \in MapChanges
    /\ client'.via # "server" /\ client'.chunk = 0 /\ client'.turn = Head(toClient).turn
    /\ \E msgs \in Seq(ToServer) :
          /\ toServer' = toServer \o msgs
          /\ \A m \in In(msgs) : m \notin FirstRequest \cup LaterRequest /\ m.turn = client'.turn

\* The client takes the chunk it waits for.
TakesChunk ==
    /\ client.via = "server"
    /\ toClient # <<>> /\ Head(toClient) \in MapChunk /\ Head(toClient).chunk = client.chunk

\* The client does anything else.
DownloadGoesOn ==
    /\ server' = server /\ confused' = confused /\ client'.turn = client.turn
    /\ \/ toClient' = toClient
       \/ toClient # <<>> /\ toClient' = Tail(toClient)
    /\ \E msgs \in Seq(ToServer) :
          /\ toServer' = toServer \o msgs
          /\ \A m \in In(msgs) : m.turn = client.turn
          /\ \/ /\ In(msgs) \cap (FirstRequest \cup LaterRequest) = {}
                /\ client'.via = client.via /\ client'.chunk = client.chunk
             \/ /\ In(msgs) \cap (FirstRequest \cup LaterRequest) = {}
                /\ client'.via = "none" /\ (client.via = "http" \/ TakesChunk)
             \/ /\ TakesChunk /\ client'.via = "server" /\ toClient' = Tail(toClient)
                /\ \E m \in LaterRequest : msgs = <<m>>
             \/ /\ client.via = "http" /\ client'.via = "server" /\ client'.chunk = client.chunk
                /\ toClient' = toClient
                /\ \E m \in FirstRequest \cup LaterRequest : msgs = <<m>> /\ m.chunk = client.chunk

DownloadStep ==
    \/ DownloadServed \/ DownloadEnded \/ DownloadKept \/ DownloadForgotten \/ DownloadNamed
    \/ DownloadGoesOn

-----------------------------------------------------------------------------
(* The invariant of the download *)

\* The first messages of a client come first.
HelloFirst ==
    Stage(server.state) < 3 =>
        \/ Len(toServer) >= 1 /\ toServer[1].type = "INFO"
        \/ Len(toServer) >= 2 /\ toServer[1].type = "CLIENTVER" /\ toServer[2].type = "INFO"

\* No message is of a turn the client has not heard of, and the one that asks for the
\* download asks for its beginning.
AskedInTurn ==
    /\ client.via = "http" => client.chunk = 0
    /\ \A m \in In(toServer) : m.turn <= client.turn

\* The server sends no chunk ahead while the client has not heard of the map.
AheadInTurn == server.nextMapChunk # 0 => client.turn = server.turn

\* The first chunk is not left from a map before.
FirstIsNew ==
    \A i \in 1 .. Len(toClient) :
        toClient[i] \in FirstChunk =>
            client.via # "http" /\ \A j \in 1 .. i : toClient[j] \notin MapChanges

\* The client waits for the answer to its first request.
Waiting(z) ==
    /\ client.via = "server" /\ client.chunk = 0
    /\ \A i \in 1 .. Len(toClient) : toClient[i] \notin FirstChunk \cup MapChanges
    /\ \A i \in z + 1 .. Len(toServer) : toServer[i] \notin FirstRequest \cup LaterRequest

\* The k oldest messages to the client bring what was asked for an earlier map.  The z-th
\* to the server asks for the first chunk of a map, none before it does; if the server has
\* sent another map since, then what is behind it is never answered.
Budget(k, z) ==
    /\ Count(toClient, MapChunk, 1, k) <= Batch
    /\ Count(toClient, MapChunk, k + 1, Len(toClient)) + Count(toServer, LaterRequest, 1, z - 1)
           <= Batch
    /\ k > 0 => /\ z = Len(toServer) + 1 /\ client.via = "server" /\ client.chunk = 0
                /\ \A i \in 1 .. k : toClient[i] \notin FirstChunk \cup MapChanges
    /\ \A i \in 1 .. z - 1 : toServer[i] \notin FirstRequest
    /\ z <= Len(toServer) =>
          /\ toServer[z] \in FirstRequest
          /\ toServer[z].turn = server.turn => Waiting(z)
          /\ toServer[z].turn # server.turn => server.nextMapChunk = 0

InBudget == \E k \in 0 .. Len(toClient), z \in 1 .. Len(toServer) + 1 : Budget(k, z)

WindowInv ==
    /\ HelloFirst /\ AskedInTurn
    /\ ~confused => AheadInTurn /\ FirstIsNew /\ InBudget

-----------------------------------------------------------------------------
(* What a step does to the budget *)

\* A queue that loses its first message.
LEMMA CountRest ==
    ASSUME NEW S, NEW q \in Seq(S), q # <<>>, NEW M, NEW b \in 1 .. Len(q)
    PROVE  /\ Count(q, M, 1, b) = (IF q[1] \in M THEN 1 ELSE 0) + Count(Tail(q), M, 1, b - 1)
           /\ \A a \in 1 .. b : Count(Tail(q), M, a, b - 1) = Count(q, M, a + 1, b)
<1>1. Len(q) \in Nat /\ b \in Int /\ b >= 1 /\ b - 1 \in 0 .. Len(q) - 1 /\ b - 1 + 1 = b
      /\ 1 \in 1 .. Len(q)
  OBVIOUS
<1>2. ASSUME NEW a \in 1 .. b
      PROVE  Count(Tail(q), M, a, b - 1) = Count(q, M, a + 1, b)
  <2>1. a \in 1 .. Len(q) /\ a <= (b - 1) + 1
    BY <1>1
  <2>2. Count(Tail(q), M, a, b - 1) = Count(q, M, a + 1, (b - 1) + 1)
    BY <1>1, <2>1, CountTail
  <2> QED
    BY <1>1, <2>2
<1>3. Count(q, M, 1, b) = Count(q, M, 1, 1) + Count(q, M, 1 + 1, b)
  <2>1. 1 \in Int /\ 1 <= 1 + 1 /\ 1 <= b
    BY <1>1
  <2> QED
    BY <1>1, <2>1, CountSplit
<1>4. Count(q, M, 1, 1) = IF q[1] \in M THEN 1 ELSE 0
  BY CountOne
<1>5. Count(Tail(q), M, 1, b - 1) = Count(q, M, 1 + 1, b)
  BY <1>1, <1>2
<1> QED
  BY <1>2, <1>3, <1>4, <1>5

LEMMA BatchType == Batch \in Nat /\ Batch >= 1
BY MapChangeAssumption DEF Batch

LEMMA QueueTypes ==
    ASSUME TypeOK
    PROVE  /\ toClient \in Seq(ToClient) /\ toServer \in Seq(ToServer)
           /\ Len(toClient) \in Nat /\ Len(toServer) \in Nat
           /\ \A i \in 1 .. Len(toServer) : toServer[i] \in ToServer /\ toServer[i] \in In(toServer)
           /\ \A i \in 1 .. Len(toClient) : toClient[i] \in ToClient /\ toClient[i] \in In(toClient)
           /\ server.turn \in Nat /\ client.turn \in Nat /\ server.nextMapChunk \in Nat
           /\ client.chunk \in Nat
           /\ \A m \in In(toServer) : m \in ToServer /\ m.turn \in Nat
BY TypeParts, ToServerFields DEF Server, Client, ClientOK, In, Chunk

\* The server handles a message that does not ask for the first chunk.
LEMMA BudgetServed ==
    ASSUME TypeOK, NEW k \in 0 .. Len(toClient), NEW z \in 1 .. Len(toServer) + 1, Budget(k, z),
           client' = client, toServer # <<>>, toServer' = Tail(toServer), server'.turn = server.turn,
           NEW msgs \in Seq(ToClient), toClient' = toClient \o msgs, In(msgs) \cap MapChanges = {},
           Head(toServer) \notin FirstRequest, Brings(Head(toServer), msgs)
    PROVE  InBudget'
<1>1. /\ toClient \in Seq(ToClient) /\ toServer \in Seq(ToServer)
      /\ Len(toClient) \in Nat /\ Len(toServer) \in Nat
  BY QueueTypes
<1>2. /\ Head(toServer) = toServer[1] /\ Len(toServer') = Len(toServer) - 1
      /\ toServer' \in Seq(ToServer) /\ Len(toServer) >= 1
      /\ \A i \in 1 .. Len(toServer') : i + 1 \in 1 .. Len(toServer) /\ toServer'[i] = toServer[i + 1]
  BY <1>1, TailFacts
<1>3. /\ Len(toClient') = Len(toClient) + Len(msgs) /\ Len(msgs) \in Nat
      /\ \A i \in 1 .. Len(toClient') :
                 \/ i \in 1 .. Len(toClient) /\ toClient'[i] = toClient[i]
                 \/ i - Len(toClient) \in 1 .. Len(msgs) /\ toClient'[i] = msgs[i - Len(toClient)]
  BY <1>1, ConcatFacts
<1>a. \A i \in 1 .. Len(msgs) : msgs[i] \in In(msgs) /\ msgs[i] \in ToClient
  BY DEF In
<1>4. z # 1
  <2>1. ASSUME z = 1 PROVE FALSE
    <3>1. z <= Len(toServer)
      BY <1>1, <1>2, <2>1
    <3> QED
      BY <1>2, <2>1, <3>1 DEF Budget
  <2> QED
    BY <2>1
<1>5. z \in 2 .. Len(toServer) + 1 /\ z - 1 \in 1 .. Len(toServer') + 1 /\ z \in Int
      /\ z - 1 \in 1 .. Len(toServer)
  BY <1>1, <1>2, <1>4
<1>6. k \in 0 .. Len(toClient') /\ k \in Int
  BY <1>1, <1>3
<1> DEFINE paid == IF Head(toServer) \in LaterRequest THEN 1 ELSE 0
           old == Count(toServer, LaterRequest, 1, z - 1)
           new == Count(toServer', LaterRequest, 1, z - 1 - 1)
           data == Count(toClient, MapChunk, k + 1, Len(toClient))
           more == Count(msgs, MapChunk, 1, Len(msgs))
<1>7. old = paid + new
  <2>1. toServer # <<>> /\ z - 1 \in 1 .. Len(toServer)
    BY <1>5
  <2>2. Count(toServer, LaterRequest, 1, z - 1) =
            (IF toServer[1] \in LaterRequest THEN 1 ELSE 0)
                + Count(Tail(toServer), LaterRequest, 1, z - 1 - 1)
    BY <1>1, <2>1, CountRest
  <2> QED
    BY <1>2, <2>2
<1>8. /\ Count(toClient', MapChunk, 1, k) = Count(toClient, MapChunk, 1, k)
      /\ Count(toClient', MapChunk, k + 1, Len(toClient')) = data + more
  <2>1. k + 1 \in 1 .. Len(toClient) + 1
    BY <1>1
  <2>2. Count(toClient \o msgs, MapChunk, 1, k) = Count(toClient, MapChunk, 1, k)
    BY <1>1, CountStays
  <2>3. Count(toClient \o msgs, MapChunk, k + 1, Len(toClient \o msgs)) = data + more
    BY <1>1, <2>1, CountConcat
  <2> QED
    BY <2>2, <2>3
<1>9. more <= paid
  <2>1. CASE Head(toServer) \in LaterRequest
    <3>1. more <= 1 \/ In(msgs) \cap MapChunk = {}
      BY DEF Brings
    <3>2. In(msgs) \cap MapChunk = {} => more = 0
      BY <1>3, CountNoneOf
    <3> QED
      BY <2>1, <3>1, <3>2
  <2>2. CASE Head(toServer) \notin LaterRequest
    <3>1. In(msgs) \cap MapChunk = {}
      BY <2>2 DEF Brings
    <3>2. more = 0
      BY <1>3, <3>1, CountNoneOf
    <3> QED
      BY <2>2, <3>2
  <2> QED
    BY <2>1, <2>2
<1>10. data + more + new <= Batch
  <2>1. data + old <= Batch
    BY DEF Budget
  <2>2. old \in Nat /\ new \in Nat /\ data \in Nat /\ more \in Nat /\ paid \in Nat /\ Batch \in Nat
    <3>1. old \in Nat
      <4>1. 1 \in Int /\ z - 1 \in Int /\ 1 <= z - 1 + 1
        BY <1>5
      <4> QED
        BY <4>1, CountType
    <3>2. new \in Nat
      <4>1. 1 \in Int /\ z - 1 - 1 \in Int /\ 1 <= z - 1 - 1 + 1
        BY <1>5
      <4> QED
        BY <4>1, CountType
    <3>3. data \in Nat
      <4>1. k + 1 \in Int /\ Len(toClient) \in Int /\ k + 1 <= Len(toClient) + 1
        BY <1>1, <1>6
      <4> QED
        BY <4>1, CountType
    <3>4. more \in Nat
      <4>1. 1 \in Int /\ Len(msgs) \in Int /\ 1 <= Len(msgs) + 1
        BY <1>3
      <4> QED
        BY <4>1, CountType
    <3> QED
      BY <3>1, <3>2, <3>3, <3>4, BatchType
  <2> HIDE DEF data, more, new, old, paid
  <2> QED
    BY <1>7, <1>9, <2>1, <2>2, SMTT(20)
<1>11. \A i \in 1 .. z - 1 - 1 : toServer'[i] \notin FirstRequest
  <2>1. \A i \in 1 .. z - 1 - 1 : i \in 1 .. Len(toServer') /\ i + 1 \in 1 .. z - 1
    BY <1>2, <1>5
  <2>2. \A i \in 1 .. z - 1 : toServer[i] \notin FirstRequest
    BY DEF Budget
  <2> QED
    BY <1>2, <2>1, <2>2
<1>12. ASSUME k > 0
       PROVE  /\ z - 1 = Len(toServer') + 1 /\ client.via = "server" /\ client.chunk = 0
              /\ \A i \in 1 .. k : toClient'[i] \notin FirstChunk \cup MapChanges
  <2>1. /\ z = Len(toServer) + 1 /\ client.via = "server" /\ client.chunk = 0
        /\ \A i \in 1 .. k : toClient[i] \notin FirstChunk \cup MapChanges
    BY <1>12 DEF Budget
  <2>2. z - 1 = Len(toServer') + 1
    BY <1>1, <1>2, <2>1
  <2>3. \A i \in 1 .. k : toClient'[i] = toClient[i]
    BY <1>1, <1>3
  <2> QED
    BY <2>1, <2>2, <2>3
<1>13. ASSUME z - 1 <= Len(toServer')
       PROVE  /\ toServer'[z - 1] \in FirstRequest
              /\ toServer'[z - 1].turn = server'.turn => Waiting(z - 1)'
              /\ toServer'[z - 1].turn # server'.turn => server'.nextMapChunk = 0
  <2>1. z <= Len(toServer) /\ z - 1 \in 1 .. Len(toServer') /\ z - 1 + 1 = z
    BY <1>1, <1>2, <1>5, <1>13
  <2>2. toServer'[z - 1] = toServer[z]
    BY <1>2, <2>1
  <2>3. /\ toServer[z] \in FirstRequest
        /\ toServer[z].turn = server.turn => Waiting(z)
        /\ toServer[z].turn # server.turn => server.nextMapChunk = 0
    BY <2>1 DEF Budget
  <2>4. ASSUME Waiting(z) PROVE Waiting(z - 1)'
    <3>1. ASSUME NEW i \in 1 .. Len(toClient')
          PROVE  toClient'[i] \notin FirstChunk \cup MapChanges
      <4>1. In(msgs) \cap FirstChunk = {}
        BY DEF Brings, FirstChunk
      <4> QED
        BY <1>3, <1>a, <2>4, <4>1 DEF Waiting
    <3>2. ASSUME NEW i \in (z - 1) + 1 .. Len(toServer')
          PROVE  toServer'[i] \notin FirstRequest \cup LaterRequest
      <4>1. i \in 1 .. Len(toServer') /\ i + 1 \in z + 1 .. Len(toServer)
        BY <1>2, <1>5
      <4> QED
        BY <1>2, <2>4, <4>1 DEF Waiting
    <3> QED
      BY <2>4, <3>1, <3>2 DEF Waiting
  <2>5. ASSUME server.nextMapChunk = 0 PROVE server'.nextMapChunk = 0
    <3>1. ASSUME server'.nextMapChunk # server.nextMapChunk PROVE FALSE
      <4>1. Head(toServer).chunk = 0
        BY <2>5, <3>1 DEF Brings
      <4>2. Head(toServer) \in LaterRequest
        BY <3>1 DEF Brings
      <4> QED
        BY <4>1, <4>2 DEF LaterRequest
    <3> QED
      BY <2>5, <3>1
  <2> QED
    BY <2>2, <2>3, <2>4, <2>5
<1>14. Budget(k, z - 1)'
  <2>1. Count(toClient', MapChunk, 1, k) <= Batch
    BY <1>8 DEF Budget
  <2>2. Count(toClient', MapChunk, k + 1, Len(toClient')) + new <= Batch
    BY <1>8, <1>10
  <2> QED
    BY <1>11, <1>12, <1>13, <2>1, <2>2 DEF Budget
<1> QED
  BY <1>5, <1>6, <1>14 DEF InBudget

\* The counts of a budget are numbers.
LEMMA BudgetCounts ==
    ASSUME TypeOK, NEW k \in 0 .. Len(toClient), NEW z \in 1 .. Len(toServer) + 1
    PROVE  /\ Count(toClient, MapChunk, 1, k) \in Nat
           /\ Count(toClient, MapChunk, k + 1, Len(toClient)) \in Nat
           /\ Count(toServer, LaterRequest, 1, z - 1) \in Nat
           /\ Batch \in Nat
<1>1. /\ Len(toClient) \in Int /\ Len(toServer) \in Int /\ k \in Int /\ z \in Int
      /\ k <= Len(toClient) /\ k >= 0 /\ z >= 1
  BY QueueTypes
<1>2. /\ 1 \in Int /\ k + 1 \in Int /\ z - 1 \in Int /\ 1 <= k + 1 /\ k + 1 <= Len(toClient) + 1
      /\ 1 <= z - 1 + 1
  BY <1>1
<1>3. Count(toClient, MapChunk, 1, k) \in Nat
  BY <1>1, <1>2, CountType
<1>4. Count(toClient, MapChunk, k + 1, Len(toClient)) \in Nat
  BY <1>1, <1>2, CountType
<1>5. Count(toServer, LaterRequest, 1, z - 1) \in Nat
  BY <1>1, <1>2, CountType
<1> QED
  BY <1>3, <1>4, <1>5, BatchType

\* A request for the first chunk that the server takes is one the client waits for.
LEMMA FirstAnswered ==
    ASSUME TypeOK, InBudget, toServer # <<>>, Head(toServer) \in FirstRequest,
           NEW msgs, Brings(Head(toServer), msgs), ~confused'
    PROVE  Waiting(1)
<1>1. PICK k \in 0 .. Len(toClient), z \in 1 .. Len(toServer) + 1 : Budget(k, z)
  BY DEF InBudget
<1>2. Len(toServer) \in Nat /\ Head(toServer) = toServer[1] /\ toServer \in Seq(ToServer)
  BY QueueTypes, TailFacts
<1>3. Len(toServer) >= 1 /\ z \in Int
  BY <1>2, EmptySeq, SMT
<1>4. z = 1
  <2>1. ASSUME z # 1 PROVE FALSE
    <3>1. 1 \in 1 .. z - 1
      BY <1>3, <2>1
    <3> QED
      BY <1>1, <1>2, <3>1 DEF Budget
  <2> QED
    BY <2>1
<1>5. /\ toServer[1].turn = server.turn => Waiting(1)
      /\ toServer[1].turn # server.turn => server.nextMapChunk = 0
  BY <1>1, <1>3, <1>4 DEF Budget
<1>6. ASSUME server.nextMapChunk = 0 PROVE toServer[1].turn = server.turn
  <2>1. server.nextMapChunk = Head(toServer).chunk
    BY <1>6 DEF FirstRequest
  <2> QED
    BY <1>2, <2>1 DEF Brings
<1> QED
  BY <1>5, <1>6

\* The server handles a request for the first chunk.
LEMMA BudgetFirst ==
    ASSUME TypeOK, NEW k \in 0 .. Len(toClient), NEW z \in 1 .. Len(toServer) + 1, Budget(k, z),
           client' = client, toServer # <<>>, toServer' = Tail(toServer), ~confused',
           NEW msgs \in Seq(ToClient), toClient' = toClient \o msgs,
           Head(toServer) \in FirstRequest, Brings(Head(toServer), msgs)
    PROVE  InBudget'
<1>1. /\ toClient \in Seq(ToClient) /\ toServer \in Seq(ToServer)
      /\ Len(toClient) \in Nat /\ Len(toServer) \in Nat
  BY QueueTypes
<1>2. /\ Head(toServer) = toServer[1] /\ Len(toServer') = Len(toServer) - 1
      /\ toServer' \in Seq(ToServer) /\ Len(toServer) >= 1
      /\ \A i \in 1 .. Len(toServer') : i + 1 \in 1 .. Len(toServer) /\ toServer'[i] = toServer[i + 1]
  BY <1>1, TailFacts
<1>3. /\ Len(toClient') = Len(toClient) + Len(msgs) /\ Len(msgs) \in Nat
      /\ \A i \in 1 .. Len(toClient') :
                 \/ i \in 1 .. Len(toClient) /\ toClient'[i] = toClient[i]
                 \/ i - Len(toClient) \in 1 .. Len(msgs) /\ toClient'[i] = msgs[i - Len(toClient)]
  BY <1>1, ConcatFacts
<1>4. z = 1
  <2>1. ASSUME z # 1 PROVE FALSE
    <3>1. 1 \in 1 .. z - 1
      BY <1>1, <2>1
    <3> QED
      BY <1>2, <3>1 DEF Budget
  <2> QED
    BY <2>1
<1>5. k = 0
  <2>1. z # Len(toServer) + 1
    BY <1>1, <1>2, <1>4
  <2> QED
    BY <1>1, <2>1 DEF Budget
<1>6. Waiting(1)
  <2>1. InBudget
    BY DEF InBudget
  <2> QED
    BY <2>1, FirstAnswered
<1> PICK y \in Nat : y = Len(toClient)
  BY <1>1
<1> PICK x \in Nat : x = Len(toServer)
  BY <1>1
<1>7. y \in 0 .. Len(toClient') /\ x \in 1 .. Len(toServer') + 1 /\ x = Len(toServer') + 1
  BY <1>1, <1>2, <1>3
<1>8. Count(toClient', MapChunk, 1, y) <= Batch
  <2>1. Count(toClient', MapChunk, 1, y) = Count(toClient, MapChunk, 1, y)
    <3>1. y \in 0 .. Len(toClient)
      BY <1>1
    <3>2. Count(toClient \o msgs, MapChunk, 1, y) = Count(toClient, MapChunk, 1, y)
      BY <1>1, <3>1, CountStays
    <3> QED
      BY <3>2
  <2>2. Count(toClient, MapChunk, 1, y) + Count(toServer, LaterRequest, 1, z - 1) <= Batch
    BY <1>5 DEF Budget
  <2>3. /\ Count(toClient, MapChunk, 1, y) \in Nat /\ Count(toServer, LaterRequest, 1, z - 1) \in Nat
        /\ Batch \in Nat
    BY <1>5, BudgetCounts
  <2> QED
    BY <2>1, <2>2, <2>3
<1>9. Count(toClient', MapChunk, y + 1, Len(toClient')) <= Batch
  <2>1. Count(toClient \o msgs, MapChunk, y + 1, Len(toClient \o msgs)) =
            Count(toClient, MapChunk, y + 1, Len(toClient)) + Count(msgs, MapChunk, 1, Len(msgs))
    <3>1. y + 1 \in 1 .. Len(toClient) + 1
      BY <1>1
    <3> QED
      BY <1>1, <3>1, CountConcat
  <2>2. Count(toClient, MapChunk, y + 1, Len(toClient)) = 0
    <3>1. y + 1 \in Int /\ y \in Int /\ \A i \in y + 1 .. y : FALSE
      BY <1>1
    <3> QED
      BY <3>1, CountNone
  <2>3. Count(msgs, MapChunk, 1, Len(msgs)) <= Batch
    <3>1. Head(toServer) \notin LaterRequest
      BY DEF FirstRequest, LaterRequest
    <3>2. ASSUME In(msgs) \cap MapChunk = {} PROVE Count(msgs, MapChunk, 1, Len(msgs)) = 0
      BY <1>3, <3>2, CountNoneOf
    <3> QED
      BY <3>1, <3>2, BatchType DEF Brings
  <2>4. Count(msgs, MapChunk, 1, Len(msgs)) \in Nat
    <3>1. 1 \in Int /\ Len(msgs) \in Int /\ 1 <= Len(msgs) + 1
      BY <1>3
    <3> QED
      BY <3>1, CountType
  <2> QED
    BY <2>1, <2>2, <2>3, <2>4
<1>10. \A i \in 1 .. x - 1 : toServer'[i] \notin FirstRequest \cup LaterRequest
  <2>1. \A i \in 2 .. Len(toServer) : toServer[i] \notin FirstRequest \cup LaterRequest
    BY <1>6 DEF Waiting
  <2>2. \A i \in 1 .. x - 1 : i \in 1 .. Len(toServer') /\ i + 1 \in 2 .. Len(toServer)
    BY <1>1, <1>2
  <2> QED
    BY <1>2, <2>1, <2>2
<1>11. Count(toServer', LaterRequest, 1, x - 1) = 0
  <2>1. 1 \in Int /\ x - 1 \in Int
    BY <1>1
  <2> QED
    BY <1>10, <2>1, CountNone
<1>12. /\ client'.via = "server" /\ client'.chunk = 0
       /\ \A i \in 1 .. y : toClient'[i] \notin FirstChunk \cup MapChanges
  <2>1. \A i \in 1 .. y : toClient'[i] = toClient[i]
    BY <1>1, <1>3
  <2> QED
    BY <1>6, <2>1 DEF Waiting
<1>13. Count(toClient', MapChunk, y + 1, Len(toClient')) \in Nat
  <2>1. y + 1 \in Int /\ Len(toClient') \in Int /\ y + 1 <= Len(toClient') + 1
    BY <1>1, <1>3
  <2> QED
    BY <2>1, CountType
<1>14. Budget(y, x)'
  <2>1. Count(toClient', MapChunk, y + 1, Len(toClient')) + Count(toServer', LaterRequest, 1, x - 1)
            <= Batch
    BY <1>9, <1>11, <1>13
  <2>2. ~(x <= Len(toServer'))
    BY <1>1, <1>2, <1>7
  <2> QED
    BY <1>7, <1>8, <1>10, <1>12, <2>1, <2>2 DEF Budget
<1> QED
  BY <1>7, <1>14 DEF InBudget

\* The server sends a map: what was asked for before is for an earlier one.
LEMMA BudgetEnded ==
    ASSUME TypeOK, client.turn <= server.turn, AskedInTurn,
           NEW k \in 0 .. Len(toClient), NEW z \in 1 .. Len(toServer) + 1, Budget(k, z),
           DownloadEnded
    PROVE  InBudget'
<1>1. /\ toClient \in Seq(ToClient) /\ toServer \in Seq(ToServer)
      /\ Len(toClient) \in Nat /\ Len(toServer) \in Nat /\ k \in Int /\ z \in Int
  BY QueueTypes
<1>2. PICK m \in MapChanges : toClient' = toClient \o <<m>>
  BY DEF DownloadEnded
<1>3. /\ <<m>> \in Seq(ToClient) /\ Len(<<m>>) = 1 /\ <<m>>[1] = m /\ m \notin MapChunk
  BY DEF MapChanges, MapChunk
<1>4. /\ Len(toClient') = Len(toClient) + 1
      /\ \A i \in 1 .. k : toClient'[i] = toClient[i]
  <2>1. Len(toClient \o <<m>>) = Len(toClient) + 1
    BY <1>1, <1>3, ConcatFacts
  <2>2. \A i \in 1 .. Len(toClient) + 1 :
           (toClient \o <<m>>)[i] = IF i <= Len(toClient) THEN toClient[i] ELSE <<m>>[i - Len(toClient)]
    BY <1>1, <1>3, ConcatProperties
  <2>3. \A i \in 1 .. k : i \in 1 .. Len(toClient) + 1 /\ i <= Len(toClient)
    BY <1>1
  <2> QED
    BY <1>2, <2>1, <2>2, <2>3
<1>5. Count(toClient', MapChunk, 1, k) = Count(toClient, MapChunk, 1, k)
  BY <1>1, <1>2, <1>3, CountStays
<1>6. Count(toClient', MapChunk, k + 1, Len(toClient')) =
          Count(toClient, MapChunk, k + 1, Len(toClient))
  <2>1. k + 1 \in 1 .. Len(toClient) + 1
    BY <1>1
  <2>2. Count(<<m>>, MapChunk, 1, 1) = 0
    BY <1>3, CountOne
  <2>3. Count(toClient \o <<m>>, MapChunk, k + 1, Len(toClient \o <<m>>)) =
            Count(toClient, MapChunk, k + 1, Len(toClient)) + Count(<<m>>, MapChunk, 1, Len(<<m>>))
    BY <1>1, <1>3, <2>1, CountConcat
  <2>4. Count(toClient, MapChunk, k + 1, Len(toClient)) \in Nat
    BY BudgetCounts
  <2> QED
    BY <1>2, <1>3, <2>2, <2>3, <2>4
<1>7. \E d \in {0, 1} :
          /\ Len(toServer') = Len(toServer) - d /\ z - d >= 1
          /\ \A i \in 1 .. Len(toServer') : i + d \in 1 .. Len(toServer) /\ toServer'[i] = toServer[i + d]
          /\ Count(toServer', LaterRequest, 1, z - d - 1) = Count(toServer, LaterRequest, 1, z - 1)
  <2>1. CASE toServer' = toServer
    BY <1>1, <2>1
  <2>2. CASE toServer # <<>> /\ toServer' = Tail(toServer) /\ Head(toServer).type = "INFO"
    <3>1. /\ Head(toServer) = toServer[1] /\ Len(toServer') = Len(toServer) - 1
          /\ \A i \in 1 .. Len(toServer') : i + 1 \in 1 .. Len(toServer) /\ toServer'[i] = toServer[i + 1]
      BY <1>1, <2>2, TailFacts
    <3>2. Len(toServer) >= 1
      BY <1>1, <2>2, EmptySeq, SMT
    <3>3. toServer[1] \notin FirstRequest /\ toServer[1] \notin LaterRequest
      BY <2>2, <3>1 DEF FirstRequest, LaterRequest
    <3>4. z # 1
      BY <1>1, <3>2, <3>3 DEF Budget
    <3>5. z - 1 \in 1 .. Len(toServer) /\ z - 1 >= 1 /\ z - 1 - 1 \in Int /\ 1 <= z - 1 - 1 + 1
      BY <1>1, <3>4
    <3>6. Count(toServer, LaterRequest, 1, z - 1) = Count(toServer', LaterRequest, 1, z - 1 - 1)
      <4>1. Count(toServer, LaterRequest, 1, z - 1) =
                (IF toServer[1] \in LaterRequest THEN 1 ELSE 0)
                   + Count(Tail(toServer), LaterRequest, 1, z - 1 - 1)
        BY <1>1, <2>2, <3>5, CountRest
      <4>2. Count(Tail(toServer), LaterRequest, 1, z - 1 - 1) \in Nat
        BY <3>5, CountType
      <4> QED
        BY <2>2, <3>3, <4>1, <4>2
    <3> QED
      BY <3>1, <3>5, <3>6
  <2> QED
    BY <2>1, <2>2 DEF DownloadEnded
<1>8. PICK d \in {0, 1} :
          /\ Len(toServer') = Len(toServer) - d /\ z - d >= 1
          /\ \A i \in 1 .. Len(toServer') : i + d \in 1 .. Len(toServer) /\ toServer'[i] = toServer[i + d]
          /\ Count(toServer', LaterRequest, 1, z - d - 1) = Count(toServer, LaterRequest, 1, z - 1)
  BY <1>7
<1>9. PICK y \in Nat : y = z - d
  BY <1>1, <1>8
<1>10. k \in 0 .. Len(toClient') /\ y \in 1 .. Len(toServer') + 1 /\ y \in Int /\ y + d = z /\ d \in Int
  BY <1>1, <1>4, <1>8, <1>9
<1>11. ASSUME k > 0
       PROVE  /\ y = Len(toServer') + 1 /\ client'.via = "server" /\ client'.chunk = 0
              /\ \A i \in 1 .. k : toClient'[i] \notin FirstChunk \cup MapChanges
  <2>1. /\ z = Len(toServer) + 1 /\ client.via = "server" /\ client.chunk = 0
        /\ \A i \in 1 .. k : toClient[i] \notin FirstChunk \cup MapChanges
    BY <1>11 DEF Budget
  <2>2. y = Len(toServer') + 1
    BY <1>1, <1>8, <1>10, <2>1
  <2> QED
    BY <1>4, <2>1, <2>2 DEF DownloadEnded
<1>12. \A i \in 1 .. y - 1 : toServer'[i] \notin FirstRequest
  <2>1. \A i \in 1 .. y - 1 : i \in 1 .. Len(toServer') /\ i + d \in 1 .. z - 1
    BY <1>1, <1>8, <1>10
  <2>2. \A i \in 1 .. z - 1 : toServer[i] \notin FirstRequest
    BY DEF Budget
  <2> QED
    BY <1>8, <2>1, <2>2
<1>13. ASSUME y <= Len(toServer')
       PROVE  /\ toServer'[y] \in FirstRequest /\ toServer'[y].turn # server'.turn
              /\ server'.nextMapChunk = 0
  <2>1. y \in 1 .. Len(toServer') /\ z \in 1 .. Len(toServer) /\ z <= Len(toServer)
    BY <1>1, <1>8, <1>10, <1>13
  <2>2. toServer'[y] = toServer[z] /\ toServer[z] \in FirstRequest
    BY <1>8, <1>10, <2>1 DEF Budget
  <2>3. toServer[z].turn <= client.turn /\ toServer[z].turn \in Nat
    BY <2>1, QueueTypes DEF AskedInTurn
  <2>4. server'.turn = server.turn + 1 /\ server'.nextMapChunk = 0
    BY DEF DownloadEnded
  <2>5. server.turn \in Nat /\ client.turn \in Nat
    BY QueueTypes
  <2> QED
    BY <2>2, <2>3, <2>4, <2>5
<1>14. Budget(k, y)'
  <2>1. Count(toClient', MapChunk, 1, k) <= Batch
    BY <1>5 DEF Budget
  <2>2. Count(toClient', MapChunk, k + 1, Len(toClient'))
            + Count(toServer', LaterRequest, 1, y - 1) <= Batch
    BY <1>6, <1>8, <1>9 DEF Budget
  <2> QED
    BY <1>11, <1>12, <1>13, <2>1, <2>2 DEF Budget
<1> QED
  BY <1>10, <1>14 DEF InBudget

\* The client is another process.
LEMMA BudgetForgotten == ASSUME DownloadForgotten PROVE InBudget'
<1>1. PICK m \in MapChanges : toClient' = <<m>>
  BY DEF DownloadForgotten
<1>2. Len(toClient') = 1 /\ toClient'[1] = m /\ m \notin MapChunk
  BY <1>1 DEF MapChanges, MapChunk
<1>3. /\ toServer' = Hello /\ Len(Hello) = 2
      /\ Hello[1].type = "CLIENTVER" /\ Hello[2].type = "INFO"
  BY DEF DownloadForgotten, Hello
<1>4. \A i \in 1 .. 2 : toServer'[i] \notin FirstRequest /\ toServer'[i] \notin LaterRequest
  BY <1>3 DEF FirstRequest, LaterRequest
<1>5. Count(toClient', MapChunk, 1, 0) = 0
  BY CountNone
<1>6. Count(toClient', MapChunk, 0 + 1, 1) = 0
  BY <1>2, CountOne
<1>7. Count(toServer', LaterRequest, 1, 3 - 1) = 0
  BY <1>4, CountNone
<1>8. Budget(0, 3)'
  BY <1>2, <1>3, <1>4, <1>5, <1>6, <1>7, BatchType DEF Budget
<1> QED
  BY <1>2, <1>3, <1>8 DEF InBudget

\* What asks for a chunk.
Requests == FirstRequest \cup LaterRequest

LEMMA LastPlace == ASSUME NEW n \in Nat, NEW z \in 1 .. n + 1 PROVE z <= n \/ z = n + 1
OBVIOUS

\* The z-th message to the server, or the place behind all, is now the y-th.
StillAsked(y, z, msgs) ==
    /\ z <= Len(toServer) =>
          /\ y = z /\ y <= Len(toServer') /\ toServer'[y] = toServer[z]
          /\ Count(toServer', LaterRequest, 1, y - 1) =
                 Count(toServer, LaterRequest, 1, z - 1)
    /\ z = Len(toServer) + 1 =>
          /\ y = Len(toServer') + 1
          /\ Count(toServer', LaterRequest, 1, y - 1) =
                 Count(toServer, LaterRequest, 1, z - 1)
                     + Count(msgs, LaterRequest, 1, Len(msgs))
    /\ \A i \in 1 .. y - 1 : toServer'[i] \notin FirstRequest
    /\ (\A i \in z + 1 .. Len(toServer) : toServer[i] \notin Requests)
           /\ In(msgs) \cap Requests = {} =>
          \A i \in y + 1 .. Len(toServer') : toServer'[i] \notin Requests

\* The client asks for no first chunk, or not for the first time.
LEMMA RequestsKept ==
    ASSUME TypeOK, NEW z \in 1 .. Len(toServer) + 1,
           NEW msgs \in Seq(ToServer), toServer' = toServer \o msgs,
           z <= Len(toServer) \/ In(msgs) \cap FirstRequest = {},
           \A i \in 1 .. z - 1 : toServer[i] \notin FirstRequest
    PROVE  \E y \in 1 .. Len(toServer') + 1 : StillAsked(y, z, msgs)
<1>1. /\ toServer \in Seq(ToServer) /\ Len(toServer) \in Nat /\ Len(msgs) \in Nat /\ z \in Int
  BY QueueTypes
<1>2. /\ Len(toServer') = Len(toServer) + Len(msgs)
      /\ \A i \in 1 .. Len(toServer') :
            \/ i \in 1 .. Len(toServer) /\ toServer'[i] = toServer[i]
            \/ i - Len(toServer) \in 1 .. Len(msgs) /\ toServer'[i] = msgs[i - Len(toServer)]
  BY <1>1, ConcatFacts
<1>3. \A i \in 1 .. Len(msgs) : msgs[i] \in In(msgs)
  BY DEF In
<1>4. CASE z <= Len(toServer)
  <2>1. z \in 1 .. Len(toServer') + 1 /\ z <= Len(toServer') /\ z \in 1 .. Len(toServer')
    BY <1>1, <1>2, <1>4
  <2>2. \A i \in 1 .. z : i \in 1 .. Len(toServer') /\ toServer'[i] = toServer[i]
    BY <1>1, <1>2, <1>4
  <2>3. toServer'[z] = toServer[z] /\ \A i \in 1 .. z - 1 : toServer'[i] \notin FirstRequest
    <3>1. z \in 1 .. z /\ \A i \in 1 .. z - 1 : i \in 1 .. z
      BY <1>1
    <3> QED
      BY <2>2, <3>1
  <2>4. Count(toServer', LaterRequest, 1, z - 1) = Count(toServer, LaterRequest, 1, z - 1)
    <3>1. z - 1 \in 0 .. Len(toServer)
      BY <1>1
    <3> QED
      BY <1>1, <3>1, CountStays
  <2>5. ASSUME \A i \in z + 1 .. Len(toServer) : toServer[i] \notin Requests,
               In(msgs) \cap Requests = {}, NEW i \in z + 1 .. Len(toServer')
        PROVE  toServer'[i] \notin Requests
    <3>1. i \in 1 .. Len(toServer')
      BY <1>1, <1>2
    <3>2. CASE i \in 1 .. Len(toServer) /\ toServer'[i] = toServer[i]
      <4>1. i \in z + 1 .. Len(toServer)
        BY <1>1, <3>2
      <4> QED
        BY <2>5, <3>2, <4>1
    <3>3. CASE i - Len(toServer) \in 1 .. Len(msgs) /\ toServer'[i] = msgs[i - Len(toServer)]
      BY <1>3, <2>5, <3>3
    <3> QED
      BY <1>2, <3>1, <3>2, <3>3
  <2>6. z # Len(toServer) + 1
    BY <1>1, <1>4
  <2>7. StillAsked(z, z, msgs)
    BY <2>1, <2>3, <2>4, <2>5, <2>6 DEF StillAsked
  <2> QED
    BY <2>1, <2>7
<1>5. CASE ~(z <= Len(toServer))
  <2>1. PICK y \in Nat : y = Len(toServer') + 1
    BY <1>1, <1>2
  <2>2. /\ y \in 1 .. Len(toServer') + 1 /\ z = Len(toServer) + 1 /\ y - 1 = Len(toServer')
        /\ z - 1 = Len(toServer)
    BY <1>1, <1>2, <1>5, <2>1
  <2>3. Count(toServer', LaterRequest, 1, y - 1) =
            Count(toServer, LaterRequest, 1, z - 1) + Count(msgs, LaterRequest, 1, Len(msgs))
    <3>1. 1 \in 1 .. Len(toServer) + 1
      BY <1>1
    <3> QED
      BY <1>1, <2>2, <3>1, CountConcat
  <2>4. \A i \in 1 .. y - 1 : toServer'[i] \notin FirstRequest
    BY <1>2, <1>3, <1>5, <2>2
  <2>5. \A i \in y + 1 .. Len(toServer') : FALSE
    BY <1>1, <1>2, <2>1
  <2>6. StillAsked(y, z, msgs)
    BY <1>5, <2>1, <2>2, <2>3, <2>4, <2>5 DEF StillAsked
  <2> QED
    BY <2>2, <2>6
<1> QED
  BY <1>4, <1>5

\* What is on its way to the client gets less.
LEMMA BudgetTalks ==
    ASSUME TypeOK, NEW k \in 0 .. Len(toClient), NEW z \in 1 .. Len(toServer) + 1, Budget(k, z),
           server' = server, NEW msgs \in Seq(ToServer), toServer' = toServer \o msgs,
           NEW l \in 0 .. Len(toClient'),
           z <= Len(toServer) \/ In(msgs) \cap FirstRequest = {},
           Count(toClient', MapChunk, 1, l) <= Batch,
           z <= Len(toServer) =>
              Count(toClient', MapChunk, l + 1, Len(toClient'))
                  <= Count(toClient, MapChunk, k + 1, Len(toClient)),
           z = Len(toServer) + 1 =>
              Count(toClient', MapChunk, l + 1, Len(toClient'))
                     + Count(msgs, LaterRequest, 1, Len(msgs))
                  <= Count(toClient, MapChunk, k + 1, Len(toClient)),
           Count(toClient', MapChunk, l + 1, Len(toClient')) \in Nat,
           l > 0 => /\ z = Len(toServer) + 1 /\ client'.via = "server" /\ client'.chunk = 0
                    /\ \A i \in 1 .. l : toClient'[i] \notin FirstChunk \cup MapChanges,
           Waiting(z) /\ z <= Len(toServer) =>
              /\ In(msgs) \cap Requests = {} /\ client'.via = "server" /\ client'.chunk = 0
              /\ \A i \in 1 .. Len(toClient') : toClient'[i] \notin FirstChunk \cup MapChanges
    PROVE  InBudget'
<1>1. PICK y \in 1 .. Len(toServer') + 1 : StillAsked(y, z, msgs)
  <2>1. \A i \in 1 .. z - 1 : toServer[i] \notin FirstRequest
    BY DEF Budget
  <2> QED
    BY <2>1, RequestsKept
<1>2. Len(toServer) \in Nat /\ Len(toServer') \in Nat /\ z \in Int /\ y \in Int
  <2>1. toServer \in Seq(ToServer) /\ Len(toServer) \in Nat
    BY QueueTypes
  <2>2. toServer' \in Seq(ToServer)
    BY <2>1, ConcatFacts
  <2>3. Len(toServer') \in Nat
    BY <2>2
  <2> QED
    BY <2>1, <2>3
<1>3. z <= Len(toServer) \/ z = Len(toServer) + 1
  BY <1>2, LastPlace
<1>4. Count(toClient', MapChunk, l + 1, Len(toClient')) + Count(toServer', LaterRequest, 1, y - 1)
          <= Batch
  <2> DEFINE data == Count(toClient, MapChunk, k + 1, Len(toClient))
             later == Count(toServer, LaterRequest, 1, z - 1)
             more == Count(msgs, LaterRequest, 1, Len(msgs))
             rest == Count(toClient', MapChunk, l + 1, Len(toClient'))
             now == Count(toServer', LaterRequest, 1, y - 1)
  <2>1. data + later <= Batch
    BY DEF Budget
  <2>2. data \in Nat /\ later \in Nat /\ Batch \in Nat /\ rest \in Nat
    BY BudgetCounts
  <2>3. more \in Nat
    <3>1. 1 \in Int /\ Len(msgs) \in Int /\ 1 <= Len(msgs) + 1
      OBVIOUS
    <3> QED
      BY <3>1, CountType
  <2>4. (now = later /\ rest <= data) \/ (now = later + more /\ rest + more <= data)
    <3>1. CASE z <= Len(toServer)
      <4>1. now = later /\ rest <= data
        BY <1>1, <3>1 DEF StillAsked
      <4> QED
        BY <4>1
    <3>2. CASE z = Len(toServer) + 1
      <4>1. now = later + more /\ rest + more <= data
        BY <1>1, <3>2 DEF StillAsked
      <4> QED
        BY <4>1
    <3> QED
      BY <1>3, <3>1, <3>2
  <2> HIDE DEF data, later, more, rest, now
  <2>5. rest + now <= Batch
    <3>1. CASE now = later /\ rest <= data
      BY ONLY <2>1, <2>2, <3>1
    <3>2. CASE now = later + more /\ rest + more <= data
      BY ONLY <2>1, <2>2, <2>3, <3>2
    <3> QED
      BY ONLY <2>4, <3>1, <3>2
  <2> QED
    BY <2>5 DEF rest, now
<1>5. l > 0 => y = Len(toServer') + 1
  BY <1>1 DEF StillAsked
<1>6. ASSUME y <= Len(toServer')
      PROVE  /\ toServer'[y] \in FirstRequest
             /\ toServer'[y].turn = server'.turn => Waiting(y)'
             /\ toServer'[y].turn # server'.turn => server'.nextMapChunk = 0
  <2>1. z <= Len(toServer)
    BY <1>1, <1>2, <1>3, <1>6 DEF StillAsked
  <2>2. /\ toServer'[y] = toServer[z] /\ toServer[z] \in FirstRequest
        /\ toServer[z].turn = server.turn => Waiting(z)
        /\ toServer[z].turn # server.turn => server.nextMapChunk = 0
    BY <1>1, <2>1 DEF Budget, StillAsked
  <2>3. ASSUME Waiting(z) PROVE Waiting(y)'
    <3>1. \A i \in z + 1 .. Len(toServer) : toServer[i] \notin Requests
      BY <2>3 DEF Waiting, Requests
    <3>2. \A i \in y + 1 .. Len(toServer') : toServer'[i] \notin Requests
      BY <1>1, <2>1, <2>3, <3>1 DEF StillAsked
    <3> QED
      BY <2>1, <2>3, <3>2 DEF Waiting, Requests
  <2> QED
    BY <2>2, <2>3
<1>7. Budget(l, y)'
  BY <1>1, <1>4, <1>5, <1>6 DEF Budget, StillAsked
<1> QED
  BY <1>7 DEF InBudget

\* The client has taken a message: l of the k oldest are left.
Taken(l, k) ==
    /\ Count(toClient', MapChunk, 1, l) <= Batch
    /\ Count(toClient', MapChunk, l + 1, Len(toClient')) \in Nat
    /\ Count(toClient', MapChunk, l + 1, Len(toClient'))
           <= Count(toClient, MapChunk, k + 1, Len(toClient))
    /\ k = 0 /\ Head(toClient) \in MapChunk =>
           Count(toClient', MapChunk, l + 1, Len(toClient')) + 1
               <= Count(toClient, MapChunk, k + 1, Len(toClient))
    /\ l > 0 => k > 0 /\ \A i \in 1 .. l : toClient'[i] \notin FirstChunk \cup MapChanges

LEMMA BudgetTaken ==
    ASSUME TypeOK, NEW k \in 0 .. Len(toClient), NEW z \in 1 .. Len(toServer) + 1, Budget(k, z),
           toClient # <<>>, toClient' = Tail(toClient)
    PROVE  \E l \in 0 .. Len(toClient') : Taken(l, k)
<1>1. toClient \in Seq(ToClient) /\ Len(toClient) \in Nat /\ k \in Int /\ Batch \in Nat
  BY QueueTypes, BatchType
<1>2. /\ Head(toClient) = toClient[1] /\ Len(toClient') = Len(toClient) - 1
      /\ \A i \in 1 .. Len(toClient') : toClient'[i] = toClient[i + 1]
  BY <1>1, TailFacts
<1>3. Len(toClient) >= 1 /\ Len(toClient) \in 1 .. Len(toClient)
  BY <1>1, EmptySeq, SMT
<1>4. \A a \in 1 .. Len(toClient) :
          Count(toClient', MapChunk, a, Len(toClient')) = Count(toClient, MapChunk, a + 1, Len(toClient))
  <2>1. \A a \in 1 .. Len(toClient) :
           Count(Tail(toClient), MapChunk, a, Len(toClient) - 1)
               = Count(toClient, MapChunk, a + 1, Len(toClient))
    <3> TAKE a \in 1 .. Len(toClient)
    <3>1. /\ Len(toClient) - 1 \in 0 .. Len(toClient) - 1 /\ a <= (Len(toClient) - 1) + 1
          /\ (Len(toClient) - 1) + 1 = Len(toClient)
      BY <1>1, <1>3
    <3>2. Count(Tail(toClient), MapChunk, a, Len(toClient) - 1)
              = Count(toClient, MapChunk, a + 1, (Len(toClient) - 1) + 1)
      BY <1>1, <3>1, CountTail
    <3> QED
      BY <3>1, <3>2
  <2> QED
    BY <1>2, <2>1
<1>5. \A a \in 1 .. Len(toClient) : Count(toClient', MapChunk, a, Len(toClient')) \in Nat
  <2> TAKE a \in 1 .. Len(toClient)
  <2>1. a \in Int /\ Len(toClient') \in Int /\ a <= Len(toClient') + 1
    BY <1>1, <1>2
  <2> QED
    BY <2>1, CountType
<1>6. CASE k = 0
  <2>1. Count(toClient, MapChunk, 1, Len(toClient)) =
            (IF toClient[1] \in MapChunk THEN 1 ELSE 0)
                + Count(toClient', MapChunk, 1, Len(toClient'))
    <3>1. Count(toClient, MapChunk, 1, Len(toClient)) =
            (IF toClient[1] \in MapChunk THEN 1 ELSE 0)
                + Count(Tail(toClient), MapChunk, 1, Len(toClient) - 1)
      BY <1>1, <1>3, CountRest
    <3> QED
      BY <1>2, <3>1
  <2>2. Count(toClient', MapChunk, 1, Len(toClient')) \in Nat
    BY <1>3, <1>5
  <2>3. Count(toClient', MapChunk, 1, 0) = 0
    BY CountNone
  <2>4. 0 \in 0 .. Len(toClient')
    BY <1>1, <1>2, <1>3
  <2>5. Taken(0, k)
    <3>1. 0 + 1 = 1 /\ k + 1 = 1
      BY <1>6
    <3> QED
      BY <1>1, <1>2, <1>6, <2>1, <2>2, <2>3, <3>1 DEF Taken
  <2> QED
    BY <2>4, <2>5
<1>7. CASE k # 0
  <2>1. PICK l \in Nat : l = k - 1
    BY <1>1, <1>7
  <2>2. l \in 0 .. Len(toClient') /\ l + 1 = k /\ k \in 1 .. Len(toClient) /\ k > 0
    BY <1>1, <1>2, <1>7, <2>1
  <2>3. Count(toClient, MapChunk, 1, k) =
            (IF toClient[1] \in MapChunk THEN 1 ELSE 0) + Count(toClient', MapChunk, 1, l)
    <3>1. Count(toClient, MapChunk, 1, k) =
            (IF toClient[1] \in MapChunk THEN 1 ELSE 0) + Count(Tail(toClient), MapChunk, 1, k - 1)
      BY <1>1, <2>2, CountRest
    <3> QED
      BY <2>1, <3>1
  <2>4. Count(toClient', MapChunk, 1, l) \in Nat
    <3>1. 1 \in Int /\ l \in Int /\ 1 <= l + 1
      BY <2>1
    <3> QED
      BY <3>1, CountType
  <2>5. Count(toClient', MapChunk, 1, l) <= Batch
    <3>1. Count(toClient, MapChunk, 1, k) <= Batch
      BY DEF Budget
    <3> QED
      BY <1>1, <2>3, <2>4, <3>1
  <2>6. /\ Count(toClient', MapChunk, l + 1, Len(toClient'))
               = Count(toClient, MapChunk, k + 1, Len(toClient))
        /\ Count(toClient', MapChunk, l + 1, Len(toClient')) \in Nat
    BY <1>4, <1>5, <2>2
  <2>7. \A i \in 1 .. l : toClient'[i] \notin FirstChunk \cup MapChanges
    <3>1. \A i \in 1 .. k : toClient[i] \notin FirstChunk \cup MapChanges
      BY <2>2 DEF Budget
    <3>2. \A i \in 1 .. l : i \in 1 .. Len(toClient') /\ i + 1 \in 1 .. k
      BY <1>1, <1>2, <2>2
    <3> QED
      BY <1>2, <3>1, <3>2
  <2>8. Count(toClient', MapChunk, l + 1, Len(toClient'))
            <= Count(toClient, MapChunk, k + 1, Len(toClient))
    BY <2>6
  <2>9. Taken(l, k)
    BY <1>7, <2>2, <2>5, <2>6, <2>7, <2>8 DEF Taken
  <2> QED
    BY <2>2, <2>9
<1> QED
  BY <1>6, <1>7

\* The client hears of a map: what it had asked for is of an earlier one.
LEMMA BudgetNamed ==
    ASSUME TypeOK, NEW k \in 0 .. Len(toClient), NEW z \in 1 .. Len(toServer) + 1, Budget(k, z),
           DownloadNamed
    PROVE  InBudget'
<1>1. PICK msgs \in Seq(ToServer) :
          /\ toServer' = toServer \o msgs
          /\ \A m \in In(msgs) : m \notin FirstRequest \cup LaterRequest /\ m.turn = client'.turn
  BY DEF DownloadNamed
<1>2. /\ server' = server /\ toClient # <<>> /\ toClient' = Tail(toClient)
      /\ Head(toClient) \in MapChanges
  BY DEF DownloadNamed
<1>3. /\ toClient \in Seq(ToClient) /\ Len(toClient) \in Nat /\ Len(toServer) \in Nat
      /\ Head(toClient) = toClient[1]
  BY <1>2, QueueTypes, TailFacts
<1>4. Len(toClient) >= 1
  BY <1>2, <1>3, EmptySeq, SMT
<1>5. k = 0
  <2>1. ASSUME k # 0 PROVE FALSE
    <3>1. k > 0 /\ 1 \in 1 .. k
      BY <1>3, <2>1
    <3> QED
      BY <1>2, <1>3, <3>1 DEF Budget
  <2> QED
    BY <2>1
<1>6. ~Waiting(z)
  BY <1>2, <1>3, <1>4 DEF Waiting
<1>7. PICK l \in 0 .. Len(toClient') : Taken(l, k)
  BY <1>2, BudgetTaken
<1>8. ~(l > 0)
  BY <1>5, <1>7 DEF Taken
<1>9. In(msgs) \cap FirstRequest = {} /\ In(msgs) \cap LaterRequest = {}
  BY <1>1
<1>10. Count(msgs, LaterRequest, 1, Len(msgs)) = 0
  <2>1. \A i \in 1 .. Len(msgs) : msgs[i] \in In(msgs)
    BY DEF In
  <2>2. 1 \in Int /\ Len(msgs) \in Int
    OBVIOUS
  <2> QED
    BY <1>9, <2>1, <2>2, CountNone
<1>11. /\ Count(toClient', MapChunk, 1, l) <= Batch
       /\ Count(toClient', MapChunk, l + 1, Len(toClient'))
              <= Count(toClient, MapChunk, k + 1, Len(toClient))
       /\ Count(toClient', MapChunk, l + 1, Len(toClient')) \in Nat
  BY <1>7 DEF Taken
<1>12. Count(toClient', MapChunk, l + 1, Len(toClient')) + Count(msgs, LaterRequest, 1, Len(msgs))
           <= Count(toClient, MapChunk, k + 1, Len(toClient))
  BY <1>10, <1>11
<1> QED
  BY <1>1, <1>2, <1>6, <1>8, <1>9, <1>11, <1>12, BudgetTalks

\* A client that waits for no first chunk has none asked for that will be answered.
LEMMA NothingWaited ==
    ASSUME TypeOK,
           NEW k \in 0 .. Len(toClient), NEW z \in 1 .. Len(toServer) + 1, Budget(k, z),
           client.via = "http" \/ TakesChunk
    PROVE  k = 0 /\ ~Waiting(z)
<1>1. CASE client.via = "http"
  <2>1. ~(k > 0)
    BY <1>1 DEF Budget
  <2>2. k = 0
    BY <2>1, QueueTypes
  <2> QED
    BY <1>1, <2>2 DEF Waiting
<1>2. CASE TakesChunk
  <2>1. /\ toClient \in Seq(ToClient) /\ Len(toClient) \in Nat /\ Head(toClient) = toClient[1]
        /\ toClient # <<>>
    BY <1>2, QueueTypes, TailFacts DEF TakesChunk
  <2>2. Len(toClient) >= 1
    BY <2>1, EmptySeq, SMT
  <2>3. client.chunk = 0 => toClient[1] \in FirstChunk
    BY <1>2, <2>1 DEF TakesChunk, FirstChunk
  <2>4. ASSUME k # 0 PROVE FALSE
    <3>1. k > 0 /\ 1 \in 1 .. k
      BY <2>1, <2>4
    <3> QED
      BY <2>3, <3>1 DEF Budget
  <2>5. ~Waiting(z)
    BY <2>2, <2>3, <2>1 DEF Waiting
  <2> QED
    BY <2>4, <2>5
<1> QED
  BY <1>1, <1>2

\* What may be on its way to the client when it does something.
LEMMA BudgetLess ==
    ASSUME TypeOK, NEW k \in 0 .. Len(toClient), NEW z \in 1 .. Len(toServer) + 1, Budget(k, z),
           \/ toClient' = toClient
           \/ toClient # <<>> /\ toClient' = Tail(toClient)
    PROVE  \E l \in 0 .. Len(toClient') :
              /\ Count(toClient', MapChunk, 1, l) <= Batch
              /\ Count(toClient', MapChunk, l + 1, Len(toClient')) \in Nat
              /\ Count(toClient', MapChunk, l + 1, Len(toClient'))
                     <= Count(toClient, MapChunk, k + 1, Len(toClient))
              /\ toClient' = Tail(toClient) /\ toClient # <<>> => Taken(l, k)
              /\ l > 0 => k > 0 /\ \A i \in 1 .. l : toClient'[i] \notin FirstChunk \cup MapChanges
<1>1. CASE toClient # <<>> /\ toClient' = Tail(toClient)
  <2>1. PICK l \in 0 .. Len(toClient') : Taken(l, k)
    BY <1>1, BudgetTaken
  <2> QED
    BY <2>1 DEF Taken
<1>2. CASE ~(toClient # <<>> /\ toClient' = Tail(toClient))
  <2>1. toClient' = toClient
    BY <1>2
  <2>2. /\ Count(toClient, MapChunk, k + 1, Len(toClient)) \in Nat
        /\ Count(toClient, MapChunk, 1, k) <= Batch
    BY BudgetCounts DEF Budget
  <2>3. Count(toClient', MapChunk, k + 1, Len(toClient'))
            <= Count(toClient, MapChunk, k + 1, Len(toClient))
    BY <2>1, <2>2
  <2>4. k > 0 => \A i \in 1 .. k : toClient'[i] \notin FirstChunk \cup MapChanges
    BY <2>1 DEF Budget
  <2>5. k \in 0 .. Len(toClient')
    BY <2>1
  <2> QED
    BY <1>2, <2>1, <2>2, <2>3, <2>4, <2>5
<1> QED
  BY <1>1, <1>2

\* Messages that ask for nothing.
LEMMA NothingAsked ==
    ASSUME NEW msgs \in Seq(ToServer), In(msgs) \cap Requests = {}
    PROVE  Count(msgs, LaterRequest, 1, Len(msgs)) = 0 /\ In(msgs) \cap FirstRequest = {}
<1>1. \A i \in 1 .. Len(msgs) : msgs[i] \in In(msgs)
  BY DEF In
<1>2. 1 \in Int /\ Len(msgs) \in Int
  OBVIOUS
<1>3. In(msgs) \cap FirstRequest = {} /\ In(msgs) \cap LaterRequest = {}
  BY DEF Requests
<1> QED
  BY <1>1, <1>2, <1>3, CountNone

\* The client does nothing about the download.
LEMMA BudgetIdle ==
    ASSUME TypeOK, NEW k \in 0 .. Len(toClient), NEW z \in 1 .. Len(toServer) + 1, Budget(k, z),
           server' = server,
           \/ toClient' = toClient
           \/ toClient # <<>> /\ toClient' = Tail(toClient),
           NEW msgs \in Seq(ToServer), toServer' = toServer \o msgs,
           In(msgs) \cap Requests = {}, client'.via = client.via, client'.chunk = client.chunk
    PROVE  InBudget'
<1>1. PICK l \in 0 .. Len(toClient') :
              /\ Count(toClient', MapChunk, 1, l) <= Batch
              /\ Count(toClient', MapChunk, l + 1, Len(toClient')) \in Nat
              /\ Count(toClient', MapChunk, l + 1, Len(toClient'))
                     <= Count(toClient, MapChunk, k + 1, Len(toClient))
              /\ toClient' = Tail(toClient) /\ toClient # <<>> => Taken(l, k)
              /\ l > 0 => k > 0 /\ \A i \in 1 .. l : toClient'[i] \notin FirstChunk \cup MapChanges
  BY BudgetLess
<1>2. Count(msgs, LaterRequest, 1, Len(msgs)) = 0 /\ In(msgs) \cap FirstRequest = {}
  BY NothingAsked
<1>3. Count(toClient', MapChunk, l + 1, Len(toClient')) + Count(msgs, LaterRequest, 1, Len(msgs))
          <= Count(toClient, MapChunk, k + 1, Len(toClient))
  BY <1>1, <1>2
<1>4. l > 0 => /\ z = Len(toServer) + 1 /\ client'.via = "server" /\ client'.chunk = 0
               /\ \A i \in 1 .. l : toClient'[i] \notin FirstChunk \cup MapChanges
  BY <1>1 DEF Budget
<1>5. \A i \in 1 .. Len(toClient') : \E j \in 1 .. Len(toClient) : toClient'[i] = toClient[j]
  <2>1. toClient \in Seq(ToClient)
    BY QueueTypes
  <2>2. CASE toClient # <<>> /\ toClient' = Tail(toClient)
    BY <2>1, <2>2, TailFacts
  <2>3. CASE toClient' = toClient
    BY <2>3
  <2> QED
    BY <2>2, <2>3
<1>6. Waiting(z) =>
          /\ In(msgs) \cap Requests = {} /\ client'.via = "server" /\ client'.chunk = 0
          /\ \A i \in 1 .. Len(toClient') : toClient'[i] \notin FirstChunk \cup MapChanges
  BY <1>5 DEF Waiting
<1> HIDE DEF Requests
<1> QED
  BY <1>1, <1>2, <1>3, <1>4, <1>6, BudgetTalks

\* The download is over.
LEMMA BudgetStops ==
    ASSUME TypeOK, NEW k \in 0 .. Len(toClient), NEW z \in 1 .. Len(toServer) + 1, Budget(k, z),
           server' = server,
           \/ toClient' = toClient
           \/ toClient # <<>> /\ toClient' = Tail(toClient),
           NEW msgs \in Seq(ToServer), toServer' = toServer \o msgs,
           In(msgs) \cap Requests = {}, client.via = "http" \/ TakesChunk
    PROVE  InBudget'
<1>1. PICK l \in 0 .. Len(toClient') :
              /\ Count(toClient', MapChunk, 1, l) <= Batch
              /\ Count(toClient', MapChunk, l + 1, Len(toClient')) \in Nat
              /\ Count(toClient', MapChunk, l + 1, Len(toClient'))
                     <= Count(toClient, MapChunk, k + 1, Len(toClient))
              /\ toClient' = Tail(toClient) /\ toClient # <<>> => Taken(l, k)
              /\ l > 0 => k > 0 /\ \A i \in 1 .. l : toClient'[i] \notin FirstChunk \cup MapChanges
  BY BudgetLess
<1>2. Count(msgs, LaterRequest, 1, Len(msgs)) = 0 /\ In(msgs) \cap FirstRequest = {}
  BY NothingAsked
<1>3. Count(toClient', MapChunk, l + 1, Len(toClient')) + Count(msgs, LaterRequest, 1, Len(msgs))
          <= Count(toClient, MapChunk, k + 1, Len(toClient))
  BY <1>1, <1>2
<1>4. k = 0 /\ ~Waiting(z)
  BY NothingWaited
<1>5. ~(l > 0)
  BY <1>1, <1>4
<1> QED
  BY <1>1, <1>2, <1>3, <1>4, <1>5, BudgetTalks

\* The client takes a chunk and asks for the next.
LEMMA BudgetAsksNext ==
    ASSUME TypeOK, NEW k \in 0 .. Len(toClient), NEW z \in 1 .. Len(toServer) + 1, Budget(k, z),
           server' = server, TakesChunk, toClient' = Tail(toClient),
           NEW m \in LaterRequest, toServer' = toServer \o <<m>>
    PROVE  InBudget'
<1>1. toClient # <<>> /\ Head(toClient) \in MapChunk
  BY DEF TakesChunk
<1>2. k = 0 /\ ~Waiting(z)
  BY NothingWaited
<1>3. PICK l \in 0 .. Len(toClient') : Taken(l, k)
  BY <1>1, BudgetTaken
<1>4. /\ Count(toClient', MapChunk, 1, l) <= Batch
      /\ Count(toClient', MapChunk, l + 1, Len(toClient')) \in Nat
      /\ Count(toClient', MapChunk, l + 1, Len(toClient'))
             <= Count(toClient, MapChunk, k + 1, Len(toClient))
      /\ Count(toClient', MapChunk, l + 1, Len(toClient')) + 1
             <= Count(toClient, MapChunk, k + 1, Len(toClient))
      /\ ~(l > 0)
  BY <1>1, <1>2, <1>3 DEF Taken
<1>5. /\ <<m>> \in Seq(ToServer) /\ In(<<m>>) \cap FirstRequest = {}
      /\ Count(<<m>>, LaterRequest, 1, Len(<<m>>)) = 1
  <2>1. /\ <<m>> \in Seq(ToServer) /\ Len(<<m>>) = 1 /\ <<m>>[1] = m /\ In(<<m>>) = {m}
        /\ m \notin FirstRequest
    BY DEF LaterRequest, FirstRequest, In
  <2>2. Count(<<m>>, LaterRequest, 1, 1) = 1
    BY <2>1, CountOne
  <2> QED
    BY <2>1, <2>2
<1>6. Count(toClient', MapChunk, l + 1, Len(toClient')) + Count(<<m>>, LaterRequest, 1, Len(<<m>>))
          <= Count(toClient, MapChunk, k + 1, Len(toClient))
  BY <1>4, <1>5
<1> QED
  BY <1>2, <1>4, <1>5, <1>6, BudgetTalks

\* The HTTP request has failed, and the client asks for the first chunk.
LEMMA BudgetAsksFirst ==
    ASSUME TypeOK, TurnInv, AskedInTurn, AheadInTurn, FirstIsNew,
           NEW k \in 0 .. Len(toClient), NEW z \in 1 .. Len(toServer) + 1, Budget(k, z),
           server' = server, toClient' = toClient,
           client.via = "http", client'.via = "server", client'.chunk = client.chunk,
           NEW m \in FirstRequest \cup LaterRequest, m.chunk = client.chunk, m.turn = client.turn,
           toServer' = toServer \o <<m>>
    PROVE  InBudget'
<1>1. /\ toServer \in Seq(ToServer) /\ Len(toServer) \in Nat /\ Len(toClient) \in Nat
  BY QueueTypes
<1>2. m \in FirstRequest /\ client.chunk = 0
  BY DEF AskedInTurn, LaterRequest
<1>3. <<m>> \in Seq(ToServer)
  BY <1>2 DEF FirstRequest
<1>4. k = 0 /\ ~Waiting(z)
  BY NothingWaited
<1>5. /\ Count(toClient, MapChunk, 1, k) <= Batch
      /\ Count(toClient, MapChunk, k + 1, Len(toClient)) \in Nat
  BY BudgetCounts DEF Budget
<1>6. CASE z <= Len(toServer)
  <2>1. k \in 0 .. Len(toClient') /\ ~(k > 0) /\ ~(z = Len(toServer) + 1)
    BY <1>1, <1>4, <1>6
  <2>2. Count(toClient', MapChunk, k + 1, Len(toClient'))
            <= Count(toClient, MapChunk, k + 1, Len(toClient))
    BY <1>5
  <2> QED
    BY <1>3, <1>4, <1>5, <1>6, <2>1, <2>2, BudgetTalks
<1>7. CASE z = Len(toServer) + 1
  <2>1. /\ Len(toServer') = Len(toServer) + 1 /\ toServer'[z] = m
        /\ \A i \in 1 .. z - 1 : toServer'[i] = toServer[i]
    <3>1. Len(toServer \o <<m>>) = Len(toServer) + 1
      BY <1>1, <1>3, ConcatFacts
    <3>2. \A i \in 1 .. Len(toServer) + 1 :
             (toServer \o <<m>>)[i] = IF i <= Len(toServer) THEN toServer[i] ELSE <<m>>[i - Len(toServer)]
      BY <1>1, <1>3, ConcatProperties
    <3>3. z \in 1 .. Len(toServer) + 1 /\ ~(z <= Len(toServer)) /\ z - Len(toServer) = 1
      BY <1>1, <1>7
    <3>4. \A i \in 1 .. z - 1 : i \in 1 .. Len(toServer) + 1 /\ i <= Len(toServer)
      BY <1>1, <1>7
    <3> QED
      BY <3>1, <3>2, <3>3, <3>4
  <2>2. Count(toServer', LaterRequest, 1, z - 1) = Count(toServer, LaterRequest, 1, z - 1)
    <3>1. z - 1 \in 0 .. Len(toServer)
      BY <1>1, <1>7
    <3> QED
      BY <1>1, <1>3, <3>1, CountStays
  <2>3. ASSUME m.turn = server.turn PROVE Waiting(z)'
    <3>1. ASSUME NEW i \in 1 .. Len(toClient)
          PROVE  toClient[i] \notin FirstChunk \cup MapChanges
      <4>1. toClient[i] \in In(toClient)
        BY QueueTypes
      <4>2. toClient[i].type # "MAP_CHANGE"
        <5>1. toClient[i].type = "MAP_CHANGE" =>
                 client.turn < toClient[i].turn /\ toClient[i].turn <= server.turn
          BY <4>1 DEF TurnInv
        <5>2. toClient[i].type = "MAP_CHANGE" => toClient[i].turn \in Nat
          BY <4>1, Ranges
        <5> QED
          BY <2>3, <5>1, <5>2, QueueTypes
      <4>3. toClient[i] \notin FirstChunk
        BY DEF FirstIsNew
      <4> QED
        BY <4>2, <4>3 DEF MapChanges
    <3>2. \A i \in z + 1 .. Len(toServer') : FALSE
      BY <1>1, <1>7, <2>1
    <3> QED
      BY <1>2, <3>1, <3>2 DEF Waiting
  <2>4. m.turn # server.turn => server'.nextMapChunk = 0
    BY DEF AheadInTurn
  <2>5. z \in 1 .. Len(toServer') + 1 /\ k \in 0 .. Len(toClient') /\ ~(k > 0)
    BY <1>1, <1>4, <1>7, <2>1
  <2>6. Budget(k, z)'
    <3>1. \A i \in 1 .. z - 1 : toServer'[i] \notin FirstRequest
      BY <2>1 DEF Budget
    <3>2. Count(toClient', MapChunk, k + 1, Len(toClient'))
            + Count(toServer', LaterRequest, 1, z - 1) <= Batch
      BY <2>2 DEF Budget
    <3> QED
      BY <1>2, <1>5, <2>1, <2>3, <2>4, <2>5, <3>1, <3>2 DEF Budget
  <2> QED
    BY <2>5, <2>6 DEF InBudget
<1> QED
  BY <1>1, <1>6, <1>7, LastPlace

LEMMA BudgetGoesOn ==
    ASSUME TypeOK, TurnInv, AskedInTurn, AheadInTurn, FirstIsNew,
           NEW k \in 0 .. Len(toClient), NEW z \in 1 .. Len(toServer) + 1, Budget(k, z),
           DownloadGoesOn
    PROVE  InBudget'
<1>1. /\ server' = server
      /\ \/ toClient' = toClient
         \/ toClient # <<>> /\ toClient' = Tail(toClient)
  BY DEF DownloadGoesOn
<1>2. PICK msgs \in Seq(ToServer) :
          /\ toServer' = toServer \o msgs
          /\ \A m \in In(msgs) : m.turn = client.turn
          /\ \/ /\ In(msgs) \cap (FirstRequest \cup LaterRequest) = {}
                /\ client'.via = client.via /\ client'.chunk = client.chunk
             \/ /\ In(msgs) \cap (FirstRequest \cup LaterRequest) = {}
                /\ client'.via = "none" /\ (client.via = "http" \/ TakesChunk)
             \/ /\ TakesChunk /\ client'.via = "server" /\ toClient' = Tail(toClient)
                /\ \E m \in LaterRequest : msgs = <<m>>
             \/ /\ client.via = "http" /\ client'.via = "server" /\ client'.chunk = client.chunk
                /\ toClient' = toClient
                /\ \E m \in FirstRequest \cup LaterRequest : msgs = <<m>> /\ m.chunk = client.chunk
  BY DEF DownloadGoesOn
<1>3. CASE /\ In(msgs) \cap (FirstRequest \cup LaterRequest) = {}
           /\ client'.via = client.via /\ client'.chunk = client.chunk
  <2>1. In(msgs) \cap Requests = {}
    BY <1>3 DEF Requests
  <2> QED
    BY <1>1, <1>2, <1>3, <2>1, BudgetIdle
<1>4. CASE /\ In(msgs) \cap (FirstRequest \cup LaterRequest) = {}
           /\ client'.via = "none" /\ (client.via = "http" \/ TakesChunk)
  <2>1. In(msgs) \cap Requests = {}
    BY <1>4 DEF Requests
  <2> QED
    BY <1>1, <1>2, <1>4, <2>1, BudgetStops
<1>5. CASE /\ TakesChunk /\ client'.via = "server" /\ toClient' = Tail(toClient)
           /\ \E m \in LaterRequest : msgs = <<m>>
  BY <1>1, <1>2, <1>5, BudgetAsksNext
<1>6. CASE /\ client.via = "http" /\ client'.via = "server" /\ client'.chunk = client.chunk
           /\ toClient' = toClient
           /\ \E m \in FirstRequest \cup LaterRequest : msgs = <<m>> /\ m.chunk = client.chunk
  <2>1. PICK m \in FirstRequest \cup LaterRequest : msgs = <<m>> /\ m.chunk = client.chunk
    BY <1>6
  <2>2. m.turn = client.turn
    BY <1>2, <2>1, OneMessage
  <2> QED
    BY <1>1, <1>2, <1>6, <2>1, <2>2, BudgetAsksFirst
<1> QED
  BY <1>2, <1>3, <1>4, <1>5, <1>6

LEMMA BudgetKeeps ==
    ASSUME TypeOK, Inv, WindowInv, DownloadStep, confused => confused', ~confused'
    PROVE  InBudget'
<1>1. /\ ~confused
      /\ AskedInTurn /\ AheadInTurn /\ FirstIsNew /\ TurnInv /\ client.turn <= server.turn
  BY DEF WindowInv, Inv, TurnInv
<1>2. PICK k \in 0 .. Len(toClient), z \in 1 .. Len(toServer) + 1 : Budget(k, z)
  BY <1>1 DEF WindowInv, InBudget
<1>3. CASE DownloadServed
  <2>1. PICK msgs \in Seq(ToClient) :
            /\ toClient' = toClient \o msgs
            /\ In(msgs) \cap MapChanges = {}
            /\ Brings(Head(toServer), msgs)
    BY <1>3 DEF DownloadServed
  <2>2. /\ client' = client /\ toServer # <<>> /\ toServer' = Tail(toServer)
        /\ server'.turn = server.turn
    BY <1>3 DEF DownloadServed
  <2>3. CASE Head(toServer) \in FirstRequest
    BY <1>2, <2>1, <2>2, <2>3, BudgetFirst
  <2>4. CASE Head(toServer) \notin FirstRequest
    BY <1>2, <2>1, <2>2, <2>4, BudgetServed
  <2> QED
    BY <2>3, <2>4
<1>4. CASE DownloadEnded
  BY <1>1, <1>2, <1>4, BudgetEnded
<1>5. CASE DownloadKept
  <2>1. Budget(k, z)'
    BY <1>2, <1>5 DEF DownloadKept, Budget, Waiting
  <2>2. k \in 0 .. Len(toClient') /\ z \in 1 .. Len(toServer') + 1
    BY <1>5 DEF DownloadKept
  <2> QED
    BY <2>1, <2>2 DEF InBudget
<1>6. CASE DownloadForgotten
  BY <1>6, BudgetForgotten
<1>7. CASE DownloadNamed
  BY <1>2, <1>7, BudgetNamed
<1>8. CASE DownloadGoesOn
  BY <1>1, <1>2, <1>8, BudgetGoesOn
<1> QED
  BY <1>3, <1>4, <1>5, <1>6, <1>7, <1>8 DEF DownloadStep

-----------------------------------------------------------------------------
(* What a step does to the rest of the invariant *)

LEMMA AskedKeeps == ASSUME TypeOK, TurnInv, AskedInTurn, DownloadStep PROVE AskedInTurn'
<1>1. /\ toServer \in Seq(ToServer) /\ client.turn \in Nat
      /\ \A m \in In(toServer) : m.turn \in Nat /\ m.turn <= client.turn
  BY QueueTypes DEF AskedInTurn
<1>2. toServer # <<>> => In(Tail(toServer)) \subseteq In(toServer)
  BY <1>1, TailFacts
<1>3. ASSUME client' = client, In(toServer') \subseteq In(toServer) PROVE AskedInTurn'
  BY <1>1, <1>3 DEF AskedInTurn
<1>4. CASE DownloadServed \/ DownloadEnded \/ DownloadKept
  BY <1>2, <1>3, <1>4 DEF DownloadServed, DownloadEnded, DownloadKept
<1>5. CASE DownloadForgotten
  <2>1. \A m \in In(Hello) : m.turn = 0
    <3>1. Len(Hello) = 2 /\ Hello[1].turn = 0 /\ Hello[2].turn = 0
      BY DEF Hello
    <3>2. \A i \in 1 .. 2 : Hello[i].turn = 0
      BY <3>1
    <3> QED
      BY <3>1, <3>2 DEF In
  <2> QED
    BY <1>5, <2>1 DEF DownloadForgotten, AskedInTurn
<1>6. CASE DownloadNamed
  <2>1. PICK msgs \in Seq(ToServer) :
          /\ toServer' = toServer \o msgs
          /\ \A m \in In(msgs) : m \notin FirstRequest \cup LaterRequest /\ m.turn = client'.turn
    BY <1>6 DEF DownloadNamed
  <2>2. In(toServer') = In(toServer) \cup In(msgs)
    BY <1>1, <2>1, ConcatFacts
  <2>3. /\ client'.chunk = 0 /\ client'.turn = Head(toClient).turn
        /\ toClient # <<>> /\ Head(toClient).type = "MAP_CHANGE"
    BY <1>6 DEF DownloadNamed, MapChanges
  <2>4. Head(toClient) \in In(toClient)
    BY <2>3, QueueTypes, TailFacts
  <2>5. client.turn < client'.turn /\ client'.turn \in Nat
    BY <2>3, <2>4, Ranges DEF TurnInv
  <2>6. \A m \in In(toServer') : m.turn <= client'.turn
    <3> TAKE m \in In(toServer')
    <3>1. CASE m \in In(toServer)
      BY <1>1, <2>5, <3>1
    <3>2. CASE m \in In(msgs)
      <4>1. m.turn = client'.turn
        BY <2>1, <3>2
      <4> QED
        BY <2>5, <4>1
    <3> QED
      BY <2>2, <3>1, <3>2
  <2> QED
    BY <2>3, <2>6 DEF AskedInTurn
<1>7. CASE DownloadGoesOn
  <2>1. PICK msgs \in Seq(ToServer) :
          /\ toServer' = toServer \o msgs
          /\ \A m \in In(msgs) : m.turn = client.turn
          /\ client'.via = "http" => client.via = "http" /\ client'.chunk = client.chunk
    BY <1>7 DEF DownloadGoesOn
  <2>2. In(toServer') = In(toServer) \cup In(msgs)
    BY <1>1, <2>1, ConcatFacts
  <2>3. client'.turn = client.turn
    BY <1>7 DEF DownloadGoesOn
  <2>4. \A m \in In(toServer') : m.turn <= client'.turn
    <3> TAKE m \in In(toServer')
    <3>1. CASE m \in In(toServer)
      BY <1>1, <2>3, <3>1
    <3>2. CASE m \in In(msgs)
      <4>1. m.turn = client.turn
        BY <2>1, <3>2
      <4> QED
        BY <1>1, <2>3, <4>1
    <3> QED
      BY <2>2, <3>1, <3>2
  <2> QED
    BY <2>1, <2>4 DEF AskedInTurn
<1> QED
  BY <1>4, <1>5, <1>6, <1>7 DEF DownloadStep

LEMMA AheadKeeps ==
    ASSUME TypeOK, TurnInv, AskedInTurn, AheadInTurn, DownloadStep, ~confused'
    PROVE  AheadInTurn'
<1>1. server.turn \in Nat /\ client.turn \in Nat /\ client.turn <= server.turn
  BY QueueTypes DEF TurnInv
<1>2. CASE DownloadServed
  <2>1. client' = client /\ server'.turn = server.turn /\ toServer # <<>>
    BY <1>2 DEF DownloadServed
  <2>2. ASSUME server'.nextMapChunk # server.nextMapChunk PROVE client.turn = server.turn
    <3>1. PICK msgs \in Seq(ToClient) : Brings(Head(toServer), msgs)
      BY <1>2 DEF DownloadServed
    <3>2. Head(toServer).turn = server.turn
      BY <2>2, <3>1 DEF Brings
    <3>3. Head(toServer) \in In(toServer)
      BY <2>1, QueueTypes, TailFacts
    <3>4. Head(toServer).turn <= client.turn
      BY <3>3 DEF AskedInTurn
    <3> QED
      BY <1>1, <3>2, <3>4
  <2> QED
    BY <2>1, <2>2 DEF AheadInTurn
<1>3. CASE DownloadEnded \/ DownloadForgotten
  BY <1>3 DEF DownloadEnded, DownloadForgotten, AheadInTurn
<1>4. CASE DownloadKept \/ DownloadGoesOn
  BY <1>4 DEF DownloadKept, DownloadGoesOn, AheadInTurn
<1>5. CASE DownloadNamed
  <2>1. /\ server' = server /\ toClient # <<>> /\ Head(toClient).type = "MAP_CHANGE"
    BY <1>5 DEF DownloadNamed, MapChanges
  <2>2. Head(toClient) \in In(toClient)
    BY <2>1, QueueTypes, TailFacts
  <2>3. client.turn < Head(toClient).turn /\ Head(toClient).turn <= server.turn
    BY <2>1, <2>2 DEF TurnInv
  <2>4. Head(toClient).turn \in Nat
    BY <2>1, <2>2, Ranges
  <2>5. server.nextMapChunk = 0
    BY <1>1, <2>3, <2>4 DEF AheadInTurn
  <2> QED
    BY <2>1, <2>5 DEF AheadInTurn
<1> QED
  BY <1>2, <1>3, <1>4, <1>5 DEF DownloadStep

LEMMA FirstIsNewKeeps ==
    ASSUME TypeOK, FirstIsNew, InBudget, DownloadStep, ~confused'
    PROVE  FirstIsNew'
<1>1. /\ toClient \in Seq(ToClient) /\ toServer \in Seq(ToServer) /\ Len(toClient) \in Nat
  BY QueueTypes
<1>2. CASE DownloadServed
  <2>1. PICK msgs \in Seq(ToClient) :
            /\ toClient' = toClient \o msgs
            /\ In(msgs) \cap MapChanges = {}
            /\ Brings(Head(toServer), msgs)
    BY <1>2 DEF DownloadServed
  <2>2. /\ Len(toClient') = Len(toClient) + Len(msgs) /\ Len(msgs) \in Nat
        /\ \A i \in 1 .. Len(toClient') :
                 \/ i \in 1 .. Len(toClient) /\ toClient'[i] = toClient[i]
                 \/ i - Len(toClient) \in 1 .. Len(msgs) /\ toClient'[i] = msgs[i - Len(toClient)]
    BY <1>1, <2>1, ConcatFacts
  <2>3. \A i \in 1 .. Len(msgs) : msgs[i] \in In(msgs)
    BY DEF In
  <2>4. client' = client /\ toServer # <<>>
    BY <1>2 DEF DownloadServed
  <2> SUFFICES ASSUME NEW i \in 1 .. Len(toClient'), toClient'[i] \in FirstChunk
               PROVE  client.via # "http" /\ \A j \in 1 .. i : toClient'[j] \notin MapChanges
    BY <2>4 DEF FirstIsNew
  <2>5. CASE i \in 1 .. Len(toClient) /\ toClient'[i] = toClient[i]
    <3>1. client.via # "http" /\ \A j \in 1 .. i : toClient[j] \notin MapChanges
      BY <2>5 DEF FirstIsNew
    <3>2. \A j \in 1 .. i : toClient'[j] = toClient[j]
      BY <1>1, <2>2, <2>5
    <3> QED
      BY <3>1, <3>2
  <2>6. CASE i - Len(toClient) \in 1 .. Len(msgs) /\ toClient'[i] = msgs[i - Len(toClient)]
    <3>1. In(msgs) \cap FirstChunk # {}
      BY <2>3, <2>6
    <3>2. Head(toServer) \in FirstRequest
      BY <2>1, <3>1 DEF Brings, FirstChunk
    <3>3. Waiting(1)
      BY <2>1, <2>4, <3>2, FirstAnswered
    <3>4. \A j \in 1 .. Len(toClient') : toClient'[j] \notin MapChanges
      BY <2>1, <2>2, <2>3, <3>3 DEF Waiting
    <3>5. \A j \in 1 .. i : j \in 1 .. Len(toClient')
      OBVIOUS
    <3> QED
      BY <3>3, <3>4, <3>5 DEF Waiting
  <2> QED
    BY <2>2, <2>5, <2>6
<1>3. CASE DownloadEnded
  <2>1. PICK m \in MapChanges : toClient' = toClient \o <<m>>
    BY <1>3 DEF DownloadEnded
  <2>2. client' = client /\ m \notin FirstChunk /\ m \in ToClient
    BY <1>3 DEF DownloadEnded, MapChanges, FirstChunk, MapChunk
  <2>3. /\ Len(toClient') = Len(toClient) + 1
        /\ \A j \in 1 .. Len(toClient) : toClient'[j] = toClient[j]
        /\ toClient'[Len(toClient) + 1] = m
    BY <1>1, <2>1
  <2> SUFFICES ASSUME NEW i \in 1 .. Len(toClient'), toClient'[i] \in FirstChunk
               PROVE  client.via # "http" /\ \A j \in 1 .. i : toClient'[j] \notin MapChanges
    BY <2>2 DEF FirstIsNew
  <2>4. i \in 1 .. Len(toClient) /\ toClient[i] \in FirstChunk
    BY <1>1, <2>2, <2>3
  <2>5. client.via # "http" /\ \A j \in 1 .. i : toClient[j] \notin MapChanges
    BY <2>4 DEF FirstIsNew
  <2>6. \A j \in 1 .. i : toClient'[j] = toClient[j]
    BY <1>1, <2>3, <2>4
  <2> QED
    BY <2>5, <2>6
<1>4. CASE DownloadKept
  BY <1>4 DEF DownloadKept, FirstIsNew
<1>5. CASE DownloadForgotten
  <2>1. PICK m \in MapChanges : toClient' = <<m>>
    BY <1>5 DEF DownloadForgotten
  <2>2. Len(toClient') = 1 /\ toClient'[1] = m /\ m \notin FirstChunk
    BY <2>1 DEF MapChanges, FirstChunk, MapChunk
  <2> QED
    BY <2>2 DEF FirstIsNew
<1>6. ASSUME toClient # <<>>, toClient' = Tail(toClient), NEW i \in 1 .. Len(toClient'),
             toClient'[i] \in FirstChunk
      PROVE  /\ client.via # "http" /\ \A j \in 1 .. i : toClient'[j] \notin MapChanges
             /\ Head(toClient) \notin MapChanges
  <2>1. /\ Len(toClient') = Len(toClient) - 1 /\ Head(toClient) = toClient[1]
        /\ \A j \in 1 .. Len(toClient') : j + 1 \in 1 .. Len(toClient) /\ toClient'[j] = toClient[j + 1]
    BY <1>1, <1>6, TailFacts
  <2>2. i + 1 \in 1 .. Len(toClient) /\ toClient[i + 1] \in FirstChunk
    BY <1>6, <2>1
  <2>3. client.via # "http" /\ \A j \in 1 .. i + 1 : toClient[j] \notin MapChanges
    BY <2>2 DEF FirstIsNew
  <2>4. 1 \in 1 .. i + 1 /\ \A j \in 1 .. i : j \in 1 .. Len(toClient') /\ j + 1 \in 1 .. i + 1
    BY <1>1, <2>1
  <2> QED
    BY <2>1, <2>3, <2>4
<1>7. CASE DownloadNamed
  <2>1. toClient # <<>> /\ toClient' = Tail(toClient) /\ Head(toClient) \in MapChanges
    BY <1>7 DEF DownloadNamed
  <2> QED
    BY <1>6, <2>1 DEF FirstIsNew
<1>8. CASE DownloadGoesOn
  <2>1. /\ toClient' = toClient \/ (toClient # <<>> /\ toClient' = Tail(toClient))
        /\ client'.via = "http" => client.via = "http"
    BY <1>8 DEF DownloadGoesOn
  <2> SUFFICES ASSUME NEW i \in 1 .. Len(toClient'), toClient'[i] \in FirstChunk
               PROVE  client.via # "http" /\ \A j \in 1 .. i : toClient'[j] \notin MapChanges
    BY <2>1 DEF FirstIsNew
  <2> QED
    BY <1>6, <2>1 DEF FirstIsNew
<1> QED
  BY <1>2, <1>3, <1>4, <1>5, <1>7, <1>8 DEF DownloadStep

\* What a step does to the first messages of a client.
HelloStep ==
    \/ Stage(server'.state) >= 3
    \/ toServer' = Hello
    \/ /\ Stage(server.state) < 3
       /\ \/ \E msgs \in Seq(ToServer) : toServer' = toServer \o msgs
          \/ toServer # <<>> /\ toServer' = Tail(toServer) /\ Head(toServer).type # "INFO"

LEMMA HelloKeeps == ASSUME TypeOK, TypeOK', HelloFirst, HelloStep PROVE HelloFirst'
<1>1. toServer \in Seq(ToServer) /\ Len(toServer) \in Nat
  BY QueueTypes
<1>2. CASE Stage(server'.state) >= 3
  <2>1. Stage(server'.state) \in 1 .. 5
    <3>1. server'.state \in StateNames
      BY StageValues DEF TypeOK
    <3> QED
      BY <3>1, StageRange
  <2> QED
    BY <1>2, <2>1 DEF HelloFirst
<1>3. CASE toServer' = Hello
  BY <1>3 DEF HelloFirst, Hello
<1>4. CASE /\ Stage(server.state) < 3
           /\ \E msgs \in Seq(ToServer) : toServer' = toServer \o msgs
  <2>1. PICK msgs \in Seq(ToServer) : toServer' = toServer \o msgs
    BY <1>4
  <2>2. Len(toServer') = Len(toServer) + Len(msgs) /\ Len(msgs) \in Nat
    BY <1>1, <2>1, ConcatFacts
  <2>3. \A i \in 1 .. Len(toServer) : toServer'[i] = toServer[i]
    BY <1>1, <2>1, <2>2, ConcatProperties
  <2>4. \/ Len(toServer) >= 1 /\ toServer[1].type = "INFO"
        \/ Len(toServer) >= 2 /\ toServer[1].type = "CLIENTVER" /\ toServer[2].type = "INFO"
    BY <1>4 DEF HelloFirst
  <2>5. \/ Len(toServer') >= 1 /\ toServer'[1].type = "INFO"
        \/ Len(toServer') >= 2 /\ toServer'[1].type = "CLIENTVER" /\ toServer'[2].type = "INFO"
    BY <1>1, <2>2, <2>3, <2>4
  <2> QED
    BY <2>5 DEF HelloFirst
<1>5. CASE /\ Stage(server.state) < 3
           /\ toServer # <<>> /\ toServer' = Tail(toServer) /\ Head(toServer).type # "INFO"
  <2>1. /\ Len(toServer') = Len(toServer) - 1 /\ Head(toServer) = toServer[1]
        /\ \A j \in 1 .. Len(toServer') : toServer'[j] = toServer[j + 1]
    BY <1>1, <1>5, TailFacts
  <2>2. Len(toServer) >= 2 /\ toServer[2].type = "INFO"
    BY <1>5, <2>1 DEF HelloFirst
  <2>3. Len(toServer') >= 1 /\ toServer'[1] = toServer[2]
    BY <1>1, <2>1, <2>2
  <2> QED
    BY <2>2, <2>3 DEF HelloFirst
<1> QED
  BY <1>2, <1>3, <1>4, <1>5 DEF HelloStep

-----------------------------------------------------------------------------
(* What each action does to a download *)

\* The answer of a handler that sends nothing of a map.
LEMMA AnswerDownload ==
    ASSUME TypeOK, toServer # <<>>, Head(toServer).type # "REQUEST_MAP_DATA",
           NEW s, s.turn = server.turn, s.nextMapChunk = server.nextMapChunk,
           NEW msgs \in Seq(ToClient), In(msgs) \cap MapChanges = {}, In(msgs) \cap MapChunk = {},
           NEW misled \in BOOLEAN, Answer(s, msgs, misled)
    PROVE  DownloadServed
<1>1. /\ server' = s /\ toServer' = Tail(toServer) /\ toClient' = toClient \o msgs
      /\ confused' = (confused \/ misled) /\ client' = client
  BY DEF Answer
<1>2. Head(toServer) \notin FirstRequest \cup LaterRequest
  BY DEF FirstRequest, LaterRequest
<1>3. Brings(Head(toServer), msgs)
  BY <1>1, <1>2 DEF Brings
<1>4. confused => confused'
  BY <1>1
<1> QED
  BY <1>1, <1>3, <1>4 DEF DownloadServed

LEMMA AnswerHello ==
    ASSUME TypeOK, toServer # <<>>, NEW s \in Server, NEW msgs, NEW misled, Answer(s, msgs, misled),
           Stage(s.state) >= Stage(server.state),
           Stage(s.state) < 3 => Head(toServer).type # "INFO"
    PROVE  HelloStep
<1>1. server' = s /\ toServer' = Tail(toServer)
  BY DEF Answer
<1>2. Stage(s.state) \in 1 .. 5 /\ Stage(server.state) \in 1 .. 5
  BY TypeParts, StageRange DEF Server
<1>3. CASE Stage(s.state) >= 3
  BY <1>1, <1>3 DEF HelloStep
<1>4. CASE Stage(s.state) < 3
  <2>1. Stage(server.state) < 3
    BY <1>2, <1>4
  <2> QED
    BY <1>1, <1>4, <2>1 DEF HelloStep
<1> QED
  BY <1>2, <1>3, <1>4

LEMMA NothingSent ==
    /\ <<>> \in Seq(ToClient) /\ In(<<>>) \cap MapChanges = {} /\ In(<<>>) \cap MapChunk = {}
BY NoMessage

LEMMA ClientVerDownload == ASSUME TypeOK, HandleClientVer PROVE DownloadStep /\ HelloStep
<1> DEFINE s == IF server.state = "PREAUTH" THEN [server EXCEPT !.state = "AUTH"] ELSE server
<1>1. /\ toServer # <<>> /\ server \in Server /\ Stage(server.state) \in 1 .. 5
      /\ Head(toServer).type = "CLIENTVER"
  BY HandledMessage DEF HandleClientVer
<1>2. s \in Server /\ s.turn = server.turn /\ s.nextMapChunk = server.nextMapChunk
  BY <1>1 DEF Server, StateNames
<1>3. Stage(s.state) >= Stage(server.state)
  BY <1>1, StageValues DEF Server
<1>4. Answer(s, <<>>, FALSE)
  BY DEF HandleClientVer
<1> HIDE DEF s
<1>5. DownloadServed
  BY <1>1, <1>2, <1>4, NothingSent, AnswerDownload
<1>6. HelloStep
  BY <1>1, <1>2, <1>3, <1>4, AnswerHello
<1> QED
  BY <1>5, <1>6 DEF DownloadStep

LEMMA ReadyDownload == ASSUME TypeOK, HandleReady PROVE DownloadStep /\ HelloStep
<1> DEFINE msg == [type |-> "CON_READY"]
           s == [server EXCEPT !.state = "READY", !.isReady = FALSE]
<1>1. /\ toServer # <<>> /\ server \in Server /\ Stage(server.state) \in 1 .. 5
      /\ Head(toServer).type = "READY" /\ Stage(server.state) >= Stage(server.state)
  BY HandledMessage DEF HandleReady
<1>2. msg \in ToClient /\ msg.type = "CON_READY"
  BY DEF ToClient
<1>3. /\ <<msg>> \in Seq(ToClient) /\ In(<<msg>>) \cap MapChanges = {}
      /\ In(<<msg>>) \cap MapChunk = {}
  BY <1>2, OneMessage DEF MapChanges, MapChunk
<1>4. /\ s \in Server /\ s.turn = server.turn /\ s.nextMapChunk = server.nextMapChunk
      /\ s.state = "READY"
  BY <1>1 DEF Server, StateNames
<1>5. Stale \in BOOLEAN
  BY DEF Stale
<1>6. \/ server.state = "CONNECTING" /\ Answer(s, <<msg>>, Stale)
      \/ Answer(server, <<msg>>, FALSE)
  BY DEF HandleReady
<1> HIDE DEF s, msg
<1>7. CASE server.state = "CONNECTING" /\ Answer(s, <<msg>>, Stale)
  <2>1. Stage(s.state) >= Stage(server.state)
    BY <1>4, <1>7, StageValues
  <2>2. HelloStep
    BY <1>1, <1>4, <1>7, <2>1, AnswerHello
  <2>3. DownloadServed
    BY <1>1, <1>3, <1>4, <1>5, <1>7, AnswerDownload
  <2> QED
    BY <2>2, <2>3 DEF DownloadStep
<1>8. CASE Answer(server, <<msg>>, FALSE)
  <2>1. HelloStep
    <3>1. Head(toServer).type # "INFO"
      BY <1>1
    <3> QED
      BY <1>1, <1>8, <3>1, AnswerHello
  <2>2. DownloadServed
    BY <1>1, <1>3, <1>8, AnswerDownload
  <2> QED
    BY <2>1, <2>2 DEF DownloadStep
<1> QED
  BY <1>6, <1>7, <1>8

LEMMA StartInfoDownload == ASSUME TypeOK, HandleStartInfo PROVE DownloadStep /\ HelloStep
<1> DEFINE msg == [type |-> "READY_TO_ENTER"]
           s == [server EXCEPT !.isReady = TRUE]
<1>1. /\ toServer # <<>> /\ server \in Server /\ Stage(server.state) \in 1 .. 5
      /\ Head(toServer).type = "START_INFO" /\ Stage(server.state) >= Stage(server.state)
  BY HandledMessage DEF HandleStartInfo
<1>2. msg \in ToClient /\ msg.type = "READY_TO_ENTER"
  BY DEF ToClient
<1>3. /\ <<msg>> \in Seq(ToClient) /\ In(<<msg>>) \cap MapChanges = {}
      /\ In(<<msg>>) \cap MapChunk = {}
  BY <1>2, OneMessage DEF MapChanges, MapChunk
<1>4. /\ s \in Server /\ s.turn = server.turn /\ s.nextMapChunk = server.nextMapChunk
      /\ s.state = server.state
  BY <1>1 DEF Server
<1>5. Answer(s, <<msg>>, FALSE) \/ Answer(server, <<>>, FALSE)
  BY DEF HandleStartInfo
<1> HIDE DEF s, msg
<1>6. CASE Answer(s, <<msg>>, FALSE)
  <2>1. HelloStep
    <3>1. Head(toServer).type # "INFO" /\ Stage(s.state) >= Stage(server.state)
      BY <1>1, <1>4
    <3> QED
      BY <1>1, <1>4, <1>6, <3>1, AnswerHello
  <2>2. DownloadServed
    BY <1>1, <1>3, <1>4, <1>6, AnswerDownload
  <2> QED
    BY <2>1, <2>2 DEF DownloadStep
<1>7. CASE Answer(server, <<>>, FALSE)
  <2>1. HelloStep
    <3>1. Head(toServer).type # "INFO"
      BY <1>1
    <3> QED
      BY <1>1, <1>7, <3>1, AnswerHello
  <2>2. DownloadServed
    BY <1>1, <1>7, NothingSent, AnswerDownload
  <2> QED
    BY <2>1, <2>2 DEF DownloadStep
<1> QED
  BY <1>5, <1>6, <1>7

LEMMA EnterGameDownload == ASSUME TypeOK, HandleEnterGame PROVE DownloadStep /\ HelloStep
<1> DEFINE s == IF server.state = "READY" /\ server.isReady
                THEN [server EXCEPT !.state = "INGAME", !.played = TRUE] ELSE server
<1>1. /\ toServer # <<>> /\ server \in Server /\ Stage(server.state) \in 1 .. 5
      /\ Head(toServer).type = "ENTERGAME"
  BY HandledMessage DEF HandleEnterGame
<1>2. s \in Server /\ s.turn = server.turn /\ s.nextMapChunk = server.nextMapChunk
  BY <1>1 DEF Server, StateNames
<1>3. Stage(s.state) >= Stage(server.state)
  BY <1>1, StageValues DEF Server
<1>4. Answer(s, <<>>, FALSE)
  BY DEF HandleEnterGame
<1> HIDE DEF s
<1>5. DownloadServed
  BY <1>1, <1>2, <1>4, NothingSent, AnswerDownload
<1>6. HelloStep
  BY <1>1, <1>2, <1>3, <1>4, AnswerHello
<1> QED
  BY <1>5, <1>6 DEF DownloadStep

\* A map that is sent starts the download again.
LEMMA SentDownload ==
    ASSUME NEW s \in Server
    PROVE  /\ MapSent(s).nextMapChunk = 0 /\ Restarted(s).nextMapChunk = 0
           /\ MapChangeOf(s) \in MapChanges
<1>1. MapSent(s).nextMapChunk = 0 /\ Restarted(s).nextMapChunk = 0
  <2>1. MapSent(s) \in Server /\ MapSent(s).nextMapChunk = 0
    BY SentState DEF MapSent, Server
  <2> QED
    BY <2>1 DEF Restarted, Server
<1>2. MapChangeOf(s) \in MapChanges
  BY SentState DEF MapChanges, MapChangeOf
<1> QED
  BY <1>1, <1>2

LEMMA InfoDownload == ASSUME TypeOK, HandleInfo PROVE DownloadStep /\ HelloStep
<1>1. /\ toServer # <<>> /\ server \in Server /\ Stage(server.state) \in 1 .. 5
      /\ Head(toServer).type = "INFO" /\ confused \in BOOLEAN
  BY HandledMessage, TypeParts DEF HandleInfo
<1>2. \/ Stage(server.state) >= 3 /\ Answer(server, <<>>, FALSE)
      \/ Answer(Restarted(server), MapMessage(server), FALSE)
  <2>1. ~(Stage(server.state) <= Stage("AUTH")) => Stage(server.state) >= 3
    BY <1>1, StageValues
  <2> QED
    BY <2>1 DEF HandleInfo
<1>3. CASE Stage(server.state) >= 3 /\ Answer(server, <<>>, FALSE)
  <2>1. DownloadServed
    BY <1>1, <1>3, NothingSent, AnswerDownload
  <2>2. HelloStep
    BY <1>3 DEF Answer, HelloStep
  <2> QED
    BY <2>1, <2>2 DEF DownloadStep
<1>4. CASE Answer(Restarted(server), MapMessage(server), FALSE)
  <2>1. /\ server' = Restarted(server) /\ toServer' = Tail(toServer)
        /\ toClient' = toClient \o <<MapChangeOf(server)>>
        /\ confused' = (confused \/ FALSE) /\ client' = client
    BY <1>1, <1>4, SentState DEF Answer
  <2>2. /\ server'.turn = server.turn + 1 /\ server'.state = "CONNECTING"
        /\ server'.nextMapChunk = 0 /\ MapChangeOf(server) \in MapChanges
    BY <1>1, <2>1, SentState, SentDownload
  <2>3. confused' = confused
    BY <1>1, <2>1
  <2>4. DownloadEnded
    BY <1>1, <2>1, <2>2, <2>3 DEF DownloadEnded
  <2>5. HelloStep
    BY <2>2, StageValues DEF HelloStep
  <2> QED
    BY <2>4, <2>5 DEF DownloadStep
<1> QED
  BY <1>2, <1>3, <1>4

LEMMA LoadDownload == ASSUME TypeOK, NEW map \in Map, LoadMap(map) PROVE DownloadStep /\ HelloStep
<1> DEFINE s == [server EXCEPT !.map = map, !.isReady = FALSE]
<1>1. server \in Server /\ Stage(server.state) \in 1 .. 5
  BY TypeParts, StageRange DEF Server
<1>2. /\ s \in Server /\ s.turn = server.turn /\ s.state = server.state
      /\ s.nextMapChunk = server.nextMapChunk
  BY <1>1 DEF Server
<1>3. /\ \/ Stage(server.state) < 3 /\ server' = s /\ toClient' = toClient
         \/ server' = Restarted(s) /\ toClient' = toClient \o MapMessage(s)
      /\ UNCHANGED <<client, toServer, confused>>
  <2>1. Stage(server.state) <= Stage("AUTH") => Stage(server.state) < 3
    BY <1>1, StageValues
  <2>2. \/ Stage(server.state) <= Stage("AUTH") /\ server' = s /\ toClient' = toClient
        \/ server' = Restarted(s) /\ toClient' = toClient \o MapMessage(s)
    BY DEF LoadMap
  <2>3. UNCHANGED <<client, toServer, confused>>
    BY DEF LoadMap
  <2> QED
    BY <2>1, <2>2, <2>3
<1> HIDE DEF s
<1>4. CASE Stage(server.state) < 3 /\ server' = s /\ toClient' = toClient
  <2>1. DownloadKept
    BY <1>2, <1>3, <1>4 DEF DownloadKept
  <2>2. toServer' = toServer \o <<>> /\ <<>> \in Seq(ToServer)
    BY <1>3, NothingFacts
  <2>3. HelloStep
    BY <1>4, <2>2 DEF HelloStep
  <2> QED
    BY <2>1, <2>3 DEF DownloadStep
<1>5. CASE server' = Restarted(s) /\ toClient' = toClient \o MapMessage(s)
  <2>1. /\ server'.turn = server.turn + 1 /\ server'.state = "CONNECTING"
        /\ server'.nextMapChunk = 0 /\ toClient' = toClient \o <<MapChangeOf(s)>>
        /\ MapChangeOf(s) \in MapChanges
    BY <1>2, <1>5, SentState, SentDownload
  <2>2. DownloadEnded
    BY <1>3, <2>1 DEF DownloadEnded
  <2>3. HelloStep
    BY <2>1, StageValues DEF HelloStep
  <2> QED
    BY <2>2, <2>3 DEF DownloadStep
<1> QED
  BY <1>3, <1>4, <1>5

LEMMA RejoinDownload == ASSUME TypeOK, Rejoin PROVE DownloadStep /\ HelloStep
<1>1. server \in Server /\ client.disk \in SUBSET Map
  BY TypeParts DEF ClientOK, Client
<1>2. /\ client' = Fresh(client.disk) /\ server' = MapSent(server)
      /\ toClient' = MapMessage(server) /\ toServer' = Hello
  BY DEF Rejoin
<1>3. /\ server'.nextMapChunk = 0 /\ toClient' = <<MapChangeOf(server)>>
      /\ MapChangeOf(server) \in MapChanges
  BY <1>1, <1>2, SentState, SentDownload
<1>4. client'.turn = 0 /\ client'.via = "none"
  BY <1>1, <1>2, FreshType
<1>5. DownloadForgotten
  BY <1>2, <1>3, <1>4 DEF DownloadForgotten
<1>6. HelloStep
  BY <1>2 DEF HelloStep
<1> QED
  BY <1>5, <1>6 DEF DownloadStep

\* How many chunks the server sends at once, and which.
LEMMA MapDataRange ==
    ASSUME server \in Server, NEW first \in Nat, NEW last \in Int, first <= last + 1
    PROVE  /\ Len(MapData(first, last)) \in 0 .. last - first + 1
           /\ \A m \in In(MapData(first, last)) :
                 m.type = "MAP_DATA" /\ m \in ToClient /\ m.chunk \in first .. last
<1> DEFINE n == Cardinality(Chunk \cap first .. last)
           Data(i) == [type |-> "MAP_DATA", map |-> server.map, chunk |-> first + i - 1]
<1>1. n \in 0 .. last - first + 1
  <2>1. IsFiniteSet(first .. last) /\ Cardinality(first .. last) = last - first + 1
    <3>1. first \in Int
      OBVIOUS
    <3>2. IsFiniteSet(first .. last)
               /\ Cardinality(first .. last) = IF first > last THEN 0 ELSE last - first + 1
      BY <3>1, FS_Interval, Zenon
    <3> QED
      BY <3>2
  <2>2. Chunk \cap first .. last \subseteq first .. last
    OBVIOUS
  <2>3. /\ IsFiniteSet(Chunk \cap first .. last)
        /\ Cardinality(Chunk \cap first .. last) <= Cardinality(first .. last)
    BY <2>1, <2>2, FS_Subset
  <2>4. Cardinality(Chunk \cap first .. last) \in Nat
    BY <2>3, FS_CardinalityType
  <2> QED
    BY <2>1, <2>3, <2>4
<1>2. MapData(first, last) = [i \in 1 .. n |-> Data(i)]
  BY DEF MapData
<1> HIDE DEF n
<1>3. n \in Nat /\ Len(MapData(first, last)) = n
  BY <1>1, <1>2
<1>4. \A i \in 1 .. n : first + i - 1 \in first .. last
  BY <1>1
<1>5. \A m \in In(MapData(first, last)) : m.chunk \in first .. last
  <2>1. \A i \in 1 .. n : MapData(first, last)[i].chunk = first + i - 1
    BY <1>2
  <2> QED
    BY <1>3, <1>4, <2>1 DEF In
<1>6. \A m \in In(MapData(first, last)) : m.type = "MAP_DATA" /\ m \in ToClient
  <2>1. /\ MapData(first, last) \in Seq(ToClient)
        /\ \A m \in In(MapData(first, last)) : m.type = "MAP_DATA"
    BY MapDataType, Zenon
  <2> QED
    BY <2>1 DEF In
<1> QED
  BY <1>1, <1>3, <1>5, <1>6

\* A queue holds no more chunks than messages.
LEMMA CountLength ==
    ASSUME NEW S, NEW q \in Seq(S), NEW M
    PROVE  Count(q, M, 1, Len(q)) \in 0 .. Len(q)
<1>1. 1 \in Int /\ Len(q) \in Int /\ 1 <= Len(q) + 1 /\ Len(q) - 1 + 1 = Len(q)
  OBVIOUS
<1> QED
  BY <1>1, CountRange

\* What a request for the chunk the server is at brings.
LEMMA AheadCount ==
    ASSUME server \in Server, NEW chunk \in Nat, chunk = server.nextMapChunk
    PROVE  /\ Ahead(chunk) \in Seq(ToClient)
           /\ \A m \in In(Ahead(chunk)) : m.type = "MAP_DATA"
           /\ chunk = 0 => Len(Ahead(chunk)) <= Batch
           /\ chunk # 0 => Len(Ahead(chunk)) <= 1 /\ In(Ahead(chunk)) \cap FirstChunk = {}
           /\ Len(Ahead(chunk)) \in Nat
<1> DEFINE next == Window + server.nextMapChunk
           p == IF chunk = 0 THEN MapData(0, Window - 1) ELSE <<>>
           q == MapData(next, next)
<1>1. next \in Nat /\ next \in Int /\ (chunk # 0 => next > 0) /\ Window \in Nat
  BY MapChangeAssumption DEF Server
<1>2. /\ q \in Seq(ToClient) /\ Len(q) \in 0 .. 1
      /\ \A m \in In(q) : m.type = "MAP_DATA" /\ m.chunk = next
  <2> HIDE DEF next
  <2>1. next <= next + 1 /\ next - next + 1 = 1
    BY <1>1
  <2>2. q \in Seq(ToClient)
    BY <1>1, MapDataType, Zenon
  <2>3. /\ Len(q) \in 0 .. next - next + 1
        /\ \A m \in In(q) : m.type = "MAP_DATA" /\ m \in ToClient /\ m.chunk \in next .. next
    BY <1>1, <2>1, MapDataRange
  <2>4. \A i \in next .. next : i = next
    BY <1>1
  <2> QED
    BY <2>1, <2>2, <2>3, <2>4
<1>3. /\ p \in Seq(ToClient) /\ \A m \in In(p) : m.type = "MAP_DATA"
      /\ Len(p) \in 0 .. Window /\ (chunk # 0 => p = <<>>)
  <2>1. CASE chunk = 0
    <3>1. 0 \in Nat /\ Window - 1 \in Int /\ 0 <= (Window - 1) + 1 /\ Window - 1 - 0 + 1 = Window
      BY <1>1
    <3>2. /\ MapData(0, Window - 1) \in Seq(ToClient)
          /\ \A m \in In(MapData(0, Window - 1)) : m.type = "MAP_DATA"
      BY <3>1, MapDataType
    <3>3. Len(MapData(0, Window - 1)) \in 0 .. Window - 1 - 0 + 1
      BY <3>1, MapDataRange
    <3> QED
      BY <2>1, <3>1, <3>2, <3>3
  <2>2. CASE chunk # 0
    BY <1>1, <2>2, NoMessage
  <2> QED
    BY <2>1, <2>2
<1>4. Ahead(chunk) = p \o q
  BY DEF Ahead
<1> HIDE DEF next, p, q
<1>5. /\ p \o q \in Seq(ToClient) /\ Len(p \o q) = Len(p) + Len(q)
      /\ In(p \o q) = In(p) \cup In(q)
  BY <1>2, <1>3, ConcatFacts
<1>6. \A m \in In(p \o q) : m.type = "MAP_DATA"
  BY <1>2, <1>3, <1>5
<1>7. Len(p \o q) \in Nat /\ Len(p \o q) <= Batch
  <2>1. Len(p) \in 0 .. Window /\ Len(q) \in 0 .. 1 /\ Len(p \o q) = Len(p) + Len(q)
    BY <1>2, <1>3, <1>5
  <2>2. \A a \in 0 .. Window, b \in 0 .. 1 : a + b \in Nat /\ a + b <= Batch
    BY <1>1 DEF Batch
  <2>3. Len(p) + Len(q) \in Nat /\ Len(p) + Len(q) <= Batch
    BY <2>1, <2>2
  <2> QED
    BY <2>1, <2>3
<1>8. ASSUME chunk # 0 PROVE Len(p \o q) <= 1 /\ In(p \o q) \cap FirstChunk = {}
  <2>1. Len(p) = 0 /\ In(p) = {}
    BY <1>3, <1>8, NoMessage
  <2>2. \A m \in In(q) : m \notin FirstChunk
    BY <1>1, <1>2, <1>8 DEF FirstChunk
  <2> QED
    BY <1>2, <1>5, <2>1, <2>2
<1> QED
  BY <1>4, <1>5, <1>6, <1>7, <1>8

LEMMA RequestDownload ==
    ASSUME TypeOK, HelloFirst, HandleRequestMapData PROVE DownloadStep /\ HelloStep
<1>1. /\ toServer # <<>> /\ server \in Server /\ Stage(server.state) \in 1 .. 5
      /\ Head(toServer) \in ToServer /\ Head(toServer).type = "REQUEST_MAP_DATA"
      /\ Head(toServer).chunk \in Nat /\ confused \in BOOLEAN /\ server.nextMapChunk \in Nat
  BY HandledMessage, ToServerFields, TypeParts DEF HandleRequestMapData, Chunk, Server
<1>2. Stage(server.state) >= 3
  <2>1. ASSUME Stage(server.state) < 3 PROVE FALSE
    <3>1. toServer[1].type = "INFO" \/ toServer[1].type = "CLIENTVER"
      BY <2>1 DEF HelloFirst
    <3>2. Head(toServer) = toServer[1]
      BY <1>1, QueueTypes, TailFacts
    <3> QED
      BY <1>1, <3>1, <3>2
  <2> QED
    BY <1>1, <2>1
<1> DEFINE chunk == Head(toServer).chunk
           s == [server EXCEPT !.nextMapChunk = @ + 1]
<1>3. \/ chunk = server.nextMapChunk /\ Answer(s, Ahead(chunk), Stale)
      \/ chunk # server.nextMapChunk /\ Answer(server, MapData(chunk, chunk), FALSE)
  <2>1. ~(Stage(server.state) < Stage("CONNECTING"))
    BY <1>1, <1>2, StageValues
  <2> QED
    BY <2>1 DEF HandleRequestMapData
<1>4. /\ s \in Server /\ s.turn = server.turn /\ s.state = server.state
      /\ s.nextMapChunk = server.nextMapChunk + 1
  BY <1>1 DEF Server
<1>5. /\ chunk = 0 => Head(toServer) \in FirstRequest
      /\ chunk # 0 => Head(toServer) \in LaterRequest
      /\ Head(toServer) \in FirstRequest \/ Head(toServer) \in LaterRequest
  BY <1>1 DEF FirstRequest, LaterRequest
<1>6. HelloStep
  <2>1. server'.state = server.state
    BY <1>3, <1>4 DEF Answer
  <2> QED
    BY <1>2, <2>1 DEF HelloStep
<1> HIDE DEF s
<1>7. CASE chunk = server.nextMapChunk /\ Answer(s, Ahead(chunk), Stale)
  <2>1. /\ Ahead(chunk) \in Seq(ToClient)
        /\ \A m \in In(Ahead(chunk)) : m.type = "MAP_DATA"
        /\ chunk = 0 => Len(Ahead(chunk)) <= Batch
        /\ chunk # 0 => Len(Ahead(chunk)) <= 1 /\ In(Ahead(chunk)) \cap FirstChunk = {}
        /\ Len(Ahead(chunk)) \in Nat
    BY <1>1, <1>7, AheadCount
  <2>2. Count(Ahead(chunk), MapChunk, 1, Len(Ahead(chunk))) \in 0 .. Len(Ahead(chunk))
    BY <2>1, CountLength
  <2>3. /\ chunk = 0 => Count(Ahead(chunk), MapChunk, 1, Len(Ahead(chunk))) <= Batch
        /\ chunk # 0 => Count(Ahead(chunk), MapChunk, 1, Len(Ahead(chunk))) <= 1
    BY <2>1, <2>2, BatchType
  <2>4. /\ server' = s /\ toServer' = Tail(toServer) /\ toClient' = toClient \o Ahead(chunk)
        /\ confused' = (confused \/ Stale) /\ client' = client
    BY <1>7 DEF Answer
  <2>5. /\ confused => confused'
        /\ confused' \/ Head(toServer).turn = server.turn
    BY <1>1, <2>4 DEF Stale
  <2>6. Brings(Head(toServer), Ahead(chunk))
    BY <1>5, <1>7, <2>1, <2>3, <2>5 DEF Brings
  <2>7. In(Ahead(chunk)) \cap MapChanges = {}
    BY <2>1 DEF MapChanges
  <2>8. server'.turn = server.turn
    BY <1>4, <2>4
  <2>9. DownloadServed
    BY <1>1, <2>1, <2>4, <2>5, <2>6, <2>7, <2>8 DEF DownloadServed
  <2> QED
    BY <1>6, <2>9 DEF DownloadStep
<1>8. CASE chunk # server.nextMapChunk /\ Answer(server, MapData(chunk, chunk), FALSE)
  <2> DEFINE msgs == MapData(chunk, chunk)
  <2>1. msgs \in Seq(ToClient)
    <3>1. chunk \in Nat /\ chunk \in Int
      BY <1>1
    <3> HIDE DEF chunk
    <3> QED
      BY <1>1, <3>1, MapDataType, Zenon
  <2>2. Len(msgs) \in 0 .. 1 /\ \A m \in In(msgs) : m.type = "MAP_DATA" /\ m.chunk = chunk
    <3>1. chunk \in Nat /\ chunk \in Int /\ chunk <= chunk + 1 /\ chunk - chunk + 1 = 1
          /\ \A i \in chunk .. chunk : i = chunk
      BY <1>1
    <3> HIDE DEF chunk
    <3>2. /\ Len(msgs) \in 0 .. chunk - chunk + 1
          /\ \A m \in In(msgs) : m.type = "MAP_DATA" /\ m \in ToClient /\ m.chunk \in chunk .. chunk
      BY <1>1, <3>1, MapDataRange
    <3> QED
      BY <3>1, <3>2
  <2>3. /\ server' = server /\ toServer' = Tail(toServer) /\ toClient' = toClient \o msgs
        /\ confused' = (confused \/ FALSE) /\ client' = client
    BY <1>8 DEF Answer
  <2> HIDE DEF msgs
  <2>4. Count(msgs, MapChunk, 1, Len(msgs)) \in 0 .. Len(msgs)
    BY <2>1, CountLength
  <2>5. Count(msgs, MapChunk, 1, Len(msgs)) <= 1 /\ Count(msgs, MapChunk, 1, Len(msgs)) <= Batch
    <3>1. Count(msgs, MapChunk, 1, Len(msgs)) \in 0 .. 1
      <4>1. \A b \in 0 .. 1 : \A a \in 0 .. b : a \in 0 .. 1
        OBVIOUS
      <4> QED
        BY <2>2, <2>4, <4>1
    <3> QED
      BY <3>1, BatchType
  <2>6. /\ chunk # 0 => In(msgs) \cap FirstChunk = {}
        /\ In(msgs) \cap MapChanges = {}
    BY <2>2 DEF FirstChunk, MapChanges
  <2>7. Brings(Head(toServer), msgs)
    BY <1>5, <1>8, <2>3, <2>5, <2>6 DEF Brings
  <2>8. confused => confused'
    BY <1>1, <2>3
  <2>9. DownloadServed
    BY <1>1, <2>1, <2>3, <2>6, <2>7, <2>8 DEF DownloadServed
  <2> QED
    BY <1>6, <2>9 DEF DownloadStep
<1> QED
  BY <1>3, <1>7, <1>8

LEMMA TalkHello ==
    ASSUME TypeOK, server' = server, NEW msgs \in Seq(ToServer), toServer' = toServer \o msgs
    PROVE  HelloStep
<1>1. Stage(server.state) \in 1 .. 5
  BY Ranges
<1>2. Stage(server.state) >= 3 \/ Stage(server.state) < 3
  BY <1>1
<1> QED
  BY <1>2 DEF HelloStep

\* Messages that ask for no chunk.
LEMMA NoRequests ==
    ASSUME NEW msgs, \A m \in In(msgs) : m.type # "REQUEST_MAP_DATA"
    PROVE  /\ In(msgs) \cap (FirstRequest \cup LaterRequest) = {}
           /\ \A m \in In(msgs) : m \notin FirstRequest \cup LaterRequest
BY DEF FirstRequest, LaterRequest

LEMMA IdleDownload ==
    ASSUME TypeOK, server' = server, confused' = confused, client'.turn = client.turn,
           client'.via = client.via, client'.chunk = client.chunk,
           toClient' = toClient \/ (toClient # <<>> /\ toClient' = Tail(toClient)),
           NEW msgs \in Seq(ToServer), toServer' = toServer \o msgs,
           \A m \in In(msgs) : m.type # "REQUEST_MAP_DATA" /\ m.turn = client.turn
    PROVE  DownloadStep /\ HelloStep
<1>1. In(msgs) \cap (FirstRequest \cup LaterRequest) = {}
  BY NoRequests
<1>2. DownloadGoesOn
  BY <1>1 DEF DownloadGoesOn
<1> QED
  BY <1>2, TalkHello DEF DownloadStep

\* The client has its map.
LEMMA FinishedDownload ==
    ASSUME TypeOK, client.via = "http" \/ TakesChunk,
           client' = Finished(client), toServer' = toServer \o Say("READY", client),
           toClient' = toClient \/ (toClient # <<>> /\ toClient' = Tail(toClient)),
           server' = server, confused' = confused
    PROVE  DownloadStep /\ HelloStep
<1>1. ClientOK(client) /\ client.turn \in Nat /\ client.via # "none"
  BY TypeParts DEF ClientOK, Client, TakesChunk
<1>2. client'.turn = client.turn /\ client'.via = "none"
  BY <1>1, FinishedFacts
<1>3. /\ Say("READY", client) \in Seq(ToServer)
      /\ \A m \in In(Say("READY", client)) : m.type # "REQUEST_MAP_DATA" /\ m.turn = client.turn
  BY <1>1, SayFacts
<1>4. In(Say("READY", client)) \cap (FirstRequest \cup LaterRequest) = {}
  BY <1>3, NoRequests
<1>5. DownloadGoesOn
  BY <1>2, <1>3, <1>4 DEF DownloadGoesOn
<1> QED
  BY <1>3, <1>5, TalkHello DEF DownloadStep

LEMMA HttpDoneDownload == ASSUME TypeOK, HttpDone PROVE DownloadStep /\ HelloStep
<1>1. /\ client.via = "http" /\ client' = Finished(client)
      /\ toServer' = toServer \o Say("READY", client) /\ toClient' = toClient
      /\ server' = server /\ confused' = confused
  BY DEF HttpDone
<1> QED
  BY <1>1, FinishedDownload

\* The request for the chunk that comes.
RequestOf(c) == [type |-> "REQUEST_MAP_DATA", chunk |-> c.chunk, turn |-> c.turn]

LEMMA RequestOfChunk ==
    ASSUME NEW c, c.turn \in Nat, c.chunk \in Chunk
    PROVE  /\ Request(c) = <<RequestOf(c)>> /\ <<RequestOf(c)>> \in Seq(ToServer)
           /\ RequestOf(c) \in FirstRequest \cup LaterRequest
           /\ c.chunk # 0 => RequestOf(c) \in LaterRequest
           /\ RequestOf(c).chunk = c.chunk /\ RequestOf(c).turn = c.turn
           /\ In(<<RequestOf(c)>>) = {RequestOf(c)}
<1>1. RequestOf(c) \in [type : {"REQUEST_MAP_DATA"}, chunk : Chunk, turn : Nat]
  BY DEF RequestOf
<1>2. RequestOf(c) \in ToServer
  BY <1>1 DEF ToServer
<1>3. /\ RequestOf(c).type = "REQUEST_MAP_DATA" /\ RequestOf(c).chunk = c.chunk
      /\ RequestOf(c).turn = c.turn
  BY DEF RequestOf
<1>4. Request(c) = <<RequestOf(c)>>
  BY DEF Request, RequestOf
<1>5. <<RequestOf(c)>> \in Seq(ToServer) /\ In(<<RequestOf(c)>>) = {RequestOf(c)}
  BY <1>2, OneMessage
<1> QED
  BY <1>2, <1>3, <1>4, <1>5 DEF FirstRequest, LaterRequest

LEMMA HttpFailsDownload == ASSUME TypeOK, HttpFails PROVE DownloadStep /\ HelloStep
<1>1. client \in Client /\ client.turn \in Nat /\ client.chunk \in Chunk
  BY TypeParts DEF ClientOK, Client
<1>2. /\ client.via = "http" /\ client' = [client EXCEPT !.via = "server"]
      /\ toServer' = toServer \o Request(client) /\ toClient' = toClient
      /\ server' = server /\ confused' = confused
  BY DEF HttpFails
<1>3. client'.via = "server" /\ client'.turn = client.turn /\ client'.chunk = client.chunk
  BY <1>1, <1>2 DEF Client
<1> DEFINE m == RequestOf(client)
<1>4. /\ toServer' = toServer \o <<m>> /\ <<m>> \in Seq(ToServer)
      /\ m \in FirstRequest \cup LaterRequest /\ m.chunk = client.chunk
      /\ \A n \in In(<<m>>) : n.turn = client.turn
  BY <1>1, <1>2, RequestOfChunk
<1> HIDE DEF m
<1>5. DownloadGoesOn
  BY <1>2, <1>3, <1>4 DEF DownloadGoesOn
<1> QED
  BY <1>2, <1>4, <1>5, TalkHello DEF DownloadStep

LEMMA MapDataDownload == ASSUME TypeOK, ReceiveMapData PROVE DownloadStep /\ HelloStep
<1> DEFINE next == [client EXCEPT !.chunk = @ + 1]
<1>1. /\ toClient # <<>> /\ client \in Client /\ ClientOK(client)
      /\ Head(toClient) \in ToClient /\ Head(toClient).type = "MAP_DATA"
  BY TypeParts, ReceivedMessage DEF ClientOK, ReceiveMapData
<1>2. \/ Reply(client, <<>>)
      \/ Expected(Head(toClient)) /\ Reply(Finished(client), Say("READY", client))
      \/ /\ Expected(Head(toClient)) /\ client.chunk # NumChunks - 1
         /\ Reply(next, Request(next))
  BY DEF ReceiveMapData
<1>3. Expected(Head(toClient)) => TakesChunk
  BY <1>1 DEF Expected, TakesChunk, MapChunk
<1>4. CASE Reply(client, <<>>)
  BY <1>1, <1>4, NothingFacts, IdleDownload DEF Reply
<1>5. CASE Expected(Head(toClient)) /\ Reply(Finished(client), Say("READY", client))
  <2>1. /\ client' = Finished(client) /\ toClient' = Tail(toClient)
        /\ toServer' = toServer \o Say("READY", client)
        /\ server' = server /\ confused' = confused
    BY <1>5 DEF Reply
  <2> QED
    BY <1>1, <1>3, <1>5, <2>1, FinishedDownload
<1>6. CASE /\ Expected(Head(toClient)) /\ client.chunk # NumChunks - 1
           /\ Reply(next, Request(next))
  <2>1. client.chunk + 1 \in Chunk /\ client.chunk + 1 # 0
    <3>1. client.chunk \in Chunk
      BY <1>1 DEF Client
    <3> QED
      BY <1>6, <3>1, MapChangeAssumption DEF Chunk
  <2>2. /\ next.turn = client.turn /\ next.via = client.via /\ next.chunk = client.chunk + 1
        /\ next.turn \in Nat
    BY <1>1, <2>1 DEF Client
  <2> HIDE DEF next
  <2>3. /\ client' = next /\ toClient' = Tail(toClient) /\ toServer' = toServer \o Request(next)
        /\ server' = server /\ confused' = confused
    BY <1>6 DEF Reply
  <2> DEFINE m == RequestOf(next)
  <2>4. /\ toServer' = toServer \o <<m>> /\ <<m>> \in Seq(ToServer)
        /\ m \in LaterRequest
        /\ \A n \in In(<<m>>) : n.turn = client.turn
    BY <2>1, <2>2, <2>3, RequestOfChunk
  <2> HIDE DEF m
  <2>5. client'.via = "server" /\ client'.turn = client.turn
    BY <1>6, <2>2, <2>3 DEF Expected
  <2>6. DownloadGoesOn
    BY <1>1, <1>3, <1>6, <2>3, <2>4, <2>5 DEF DownloadGoesOn
  <2> QED
    BY <2>3, <2>4, <2>6, TalkHello DEF DownloadStep
<1> QED
  BY <1>2, <1>4, <1>5, <1>6

LEMMA ConReadyDownload == ASSUME TypeOK, ReceiveConReady PROVE DownloadStep /\ HelloStep
<1>1. toClient # <<>> /\ client.turn \in Nat
  BY TypeParts, ReceivedMessage DEF ClientOK, Client, ReceiveConReady
<1>2. /\ Say("START_INFO", client) \in Seq(ToServer)
      /\ \A m \in In(Say("START_INFO", client)) :
            m.type # "REQUEST_MAP_DATA" /\ m.turn = client.turn
  BY <1>1, SayFacts
<1>3. /\ client' = client /\ toClient' = Tail(toClient)
      /\ toServer' = toServer \o Say("START_INFO", client)
      /\ server' = server /\ confused' = confused
  BY DEF ReceiveConReady, Reply
<1> QED
  BY <1>1, <1>2, <1>3, IdleDownload

LEMMA ReadyToEnterDownload == ASSUME TypeOK, ReceiveReadyToEnter PROVE DownloadStep /\ HelloStep
<1> DEFINE c == [client EXCEPT !.received = 0]
<1>1. toClient # <<>> /\ client \in Client /\ client.turn \in Nat
  BY TypeParts, ReceivedMessage DEF ClientOK, Client, ReceiveReadyToEnter
<1>2. /\ Say("ENTERGAME", client) \in Seq(ToServer)
      /\ \A m \in In(Say("ENTERGAME", client)) :
            m.type # "REQUEST_MAP_DATA" /\ m.turn = client.turn
  BY <1>1, SayFacts
<1>3. c.turn = client.turn /\ c.via = client.via /\ c.chunk = client.chunk
  BY <1>1 DEF Client
<1>4. /\ client' = c /\ toClient' = Tail(toClient)
      /\ toServer' = toServer \o Say("ENTERGAME", client)
      /\ server' = server /\ confused' = confused
  BY DEF ReceiveReadyToEnter, Reply
<1> HIDE DEF c
<1> QED
  BY <1>1, <1>2, <1>3, <1>4, IdleDownload

LEMMA SnapshotDownload == ASSUME TypeOK, ReceiveSnapshot PROVE DownloadStep /\ HelloStep
<1>1. client \in Client
  BY TypeParts DEF ClientOK
<1>2. /\ client'.turn = client.turn /\ client'.via = client.via /\ client'.chunk = client.chunk
      /\ server' = server /\ toClient' = toClient /\ toServer' = toServer
      /\ confused' = confused
  BY <1>1 DEF ReceiveSnapshot, Client
<1>3. toServer' = toServer \o <<>> /\ <<>> \in Seq(ToServer) /\ In(<<>>) = {}
  BY <1>2, NothingFacts
<1> QED
  BY <1>2, <1>3, IdleDownload
LEMMA MapChangeDownload == ASSUME TypeOK, ReceiveMapChange PROVE DownloadStep /\ HelloStep
<1> DEFINE msg == Head(toClient)
           c == Told(msg)
           got == [Loaded(c, msg.map) EXCEPT !.wanted = NoMap, !.via = "none"]
           Asking(left) == [c EXCEPT !.map = left, !.wanted = msg.map, !.via = "http"]
<1>1. /\ toClient # <<>> /\ msg.type = "MAP_CHANGE" /\ msg \in ToClient
      /\ msg.map \in Map /\ msg.turn \in Nat
  BY ReceivedMessage, ToClientFields DEF ReceiveMapChange
<1>2. client \in Client /\ 0 \in Chunk
  BY TypeParts, MapChangeAssumption DEF ClientOK, Chunk
<1>3. \/ Reply(got, Say("READY", c))
      \/ \E left \in {client.map, NoMap} : Reply(Asking(left), <<>>)
  BY DEF ReceiveMapChange
<1>4. c \in Client /\ c.turn = msg.turn /\ c.chunk = 0
  BY <1>1, <1>2 DEF Told, Client
<1>5. msg \in MapChanges
  BY <1>1 DEF MapChanges
<1>6. CASE Reply(got, Say("READY", c))
  <2>1. got.turn = msg.turn /\ got.via = "none" /\ got.chunk = 0
    <3> HIDE DEF c
    <3> QED
      BY <1>4 DEF Loaded, Client
  <2> HIDE DEF got, c
  <2>2. /\ client' = got /\ toClient' = Tail(toClient) /\ toServer' = toServer \o Say("READY", c)
        /\ server' = server /\ confused' = confused
    BY <1>6 DEF Reply
  <2>3. /\ Say("READY", c) \in Seq(ToServer)
        /\ \A m \in In(Say("READY", c)) : m.type # "REQUEST_MAP_DATA" /\ m.turn = c.turn
    BY <1>1, <1>4, SayFacts
  <2>4. \A m \in In(Say("READY", c)) : m \notin FirstRequest \cup LaterRequest /\ m.turn = client'.turn
    BY <1>4, <2>1, <2>2, <2>3, NoRequests
  <2>5. DownloadNamed
    BY <1>1, <1>5, <2>1, <2>2, <2>3, <2>4 DEF DownloadNamed
  <2> QED
    BY <2>2, <2>3, <2>5, TalkHello DEF DownloadStep
<1>7. ASSUME NEW left \in {client.map, NoMap}, Reply(Asking(left), <<>>)
      PROVE  DownloadStep /\ HelloStep
  <2>1. Asking(left).turn = msg.turn /\ Asking(left).via = "http" /\ Asking(left).chunk = 0
    <3> HIDE DEF c
    <3> QED
      BY <1>4 DEF Client
  <2> HIDE DEF Asking, c
  <2>2. /\ client' = Asking(left) /\ toClient' = Tail(toClient) /\ toServer' = toServer \o <<>>
        /\ server' = server /\ confused' = confused
    BY <1>7 DEF Reply
  <2>3. <<>> \in Seq(ToServer) /\ In(<<>>) = {}
    BY NothingFacts
  <2>4. DownloadNamed
    BY <1>1, <1>5, <2>1, <2>2, <2>3 DEF DownloadNamed
  <2> QED
    BY <2>2, <2>3, <2>4, TalkHello DEF DownloadStep
<1> QED
  BY <1>3, <1>6, <1>7

-----------------------------------------------------------------------------
(* The window *)

LEMMA NextDownload == ASSUME TypeOK, HelloFirst, Next PROVE DownloadStep /\ HelloStep
<1>1. CASE ServerStep
  BY <1>1, ClientVerDownload, InfoDownload, RequestDownload, ReadyDownload, StartInfoDownload,
     EnterGameDownload DEF ServerStep
<1>2. CASE ClientStep
  BY <1>2, MapChangeDownload, MapDataDownload, ConReadyDownload, ReadyToEnterDownload DEF ClientStep
<1>3. CASE HttpDone \/ HttpFails \/ ReceiveSnapshot
  BY <1>3, HttpDoneDownload, HttpFailsDownload, SnapshotDownload
<1>4. CASE \E map \in Map : LoadMap(map)
  BY <1>4, LoadDownload
<1>5. CASE Rejoin
  BY <1>5, RejoinDownload
<1> QED
  BY <1>1, <1>2, <1>3, <1>4, <1>5 DEF Next

LEMMA WindowKeeps == ASSUME TypeOK, TypeOK', Inv, WindowInv, Next PROVE WindowInv'
<1>1. DownloadStep /\ HelloStep /\ HelloFirst /\ AskedInTurn /\ TurnInv
  BY NextDownload DEF WindowInv, Inv
<1>2. confused => confused'
  <2>1. StepKind
    BY NextKind
  <2> QED
    BY <2>1 DEF StepKind, Served, Sent, Replaced, CameBack, HeardOfMap, WentOn
<1>3. HelloFirst' /\ AskedInTurn'
  BY <1>1, HelloKeeps, AskedKeeps
<1>4. ASSUME ~confused' PROVE AheadInTurn' /\ FirstIsNew' /\ InBudget'
  <2>1. AheadInTurn /\ FirstIsNew /\ InBudget
    BY <1>2, <1>4 DEF WindowInv
  <2>2. InBudget'
    BY <1>1, <1>2, <1>4, BudgetKeeps
  <2>3. AheadInTurn'
    BY <1>1, <1>4, <2>1, AheadKeeps
  <2>4. FirstIsNew'
    BY <1>1, <1>4, <2>1, FirstIsNewKeeps
  <2> QED
    BY <2>2, <2>3, <2>4
<1> QED
  BY <1>3, <1>4 DEF WindowInv

LEMMA WindowInit == Init => WindowInv
<1> SUFFICES ASSUME Init PROVE WindowInv
  OBVIOUS
<1>1. /\ server.nextMapChunk = 0 /\ client.turn = 0 /\ client.via = "none"
      /\ toClient = <<>> /\ toServer = Hello
  BY DEF Init, Fresh
<1>2. /\ Len(Hello) = 2 /\ Hello[1].type = "CLIENTVER" /\ Hello[2].type = "INFO"
      /\ Hello[1].turn = 0 /\ Hello[2].turn = 0
  BY DEF Hello
<1>3. HelloFirst
  BY <1>1, <1>2 DEF HelloFirst
<1>4. \A i \in 1 .. 2 : /\ toServer[i].turn = 0
                        /\ toServer[i] \notin FirstRequest /\ toServer[i] \notin LaterRequest
  BY <1>1, <1>2 DEF FirstRequest, LaterRequest
<1>5. AskedInTurn
  <2>1. \A m \in In(toServer) : m.turn = 0
    BY <1>1, <1>2, <1>4 DEF In
  <2> QED
    BY <1>1, <2>1 DEF AskedInTurn
<1>6. AheadInTurn
  BY <1>1 DEF AheadInTurn
<1>7. Len(toClient) = 0
  BY <1>1
<1>8. FirstIsNew
  BY <1>7 DEF FirstIsNew
<1>9. InBudget
  <2>1. Count(toClient, MapChunk, 1, 0) = 0 /\ Count(toClient, MapChunk, 0 + 1, 0) = 0
    BY CountNone
  <2>2. Count(toServer, LaterRequest, 1, 3 - 1) = 0
    BY <1>4, CountNone
  <2>3. Budget(0, 3)
    BY <1>1, <1>2, <1>4, <1>7, <2>1, <2>2, BatchType DEF Budget
  <2> QED
    BY <1>1, <1>2, <1>7, <2>3 DEF InBudget
<1> QED
  BY <1>3, <1>5, <1>6, <1>8, <1>9 DEF WindowInv

\* No more chunks are on their way than the window and the answer to the latest request,
\* for the present map and for one before it (Ahead, m_NextMapChunk): the bound the resend
\* buffer is sized for.
THEOREM WindowKeptCorrect == Spec => []WindowKept
<1>1. ASSUME TypeOK, WindowInv PROVE WindowKept
  <2> SUFFICES ASSUME ~confused
               PROVE  Cardinality({i \in 1 .. Len(toClient) : toClient[i].type = "MAP_DATA"})
                          <= 2 * (Window + 1)
    BY DEF WindowKept
  <2>1. PICK k \in 0 .. Len(toClient), z \in 1 .. Len(toServer) + 1 : Budget(k, z)
    BY <1>1 DEF WindowInv, InBudget
  <2> DEFINE all == Count(toClient, MapChunk, 1, Len(toClient))
             old == Count(toClient, MapChunk, 1, k)
             new == Count(toClient, MapChunk, k + 1, Len(toClient))
             later == Count(toServer, LaterRequest, 1, z - 1)
  <2>2. {i \in 1 .. Len(toClient) : toClient[i].type = "MAP_DATA"} =
            {i \in 1 .. Len(toClient) : toClient[i] \in MapChunk}
    BY <1>1, QueueTypes DEF MapChunk
  <2>3. all = old + new
    <3>1. 1 \in Int /\ k \in Int /\ Len(toClient) \in Int /\ 1 <= k + 1 /\ k <= Len(toClient)
      BY <1>1, QueueTypes
    <3> QED
      BY <3>1, CountSplit
  <2>4. old \in Nat /\ new \in Nat /\ later \in Nat /\ old <= Batch /\ new + later <= Batch
    BY <1>1, <2>1, BudgetCounts DEF Budget
  <2>5. all = Cardinality({i \in 1 .. Len(toClient) : toClient[i].type = "MAP_DATA"})
    BY <2>2 DEF Count
  <2> HIDE DEF all, old, new, later
  <2>6. Batch = Window + 1 /\ Window \in Nat
    BY MapChangeAssumption DEF Batch
  <2>7. all <= 2 * (Window + 1)
    BY <2>3, <2>4, <2>6
  <2> QED
    BY <2>5, <2>7
<1>2. TypeOK /\ Inv /\ WindowInv /\ [Next]_vars => WindowInv'
  <2>1. ASSUME TypeOK, Inv, WindowInv, Next PROVE WindowInv'
    <3>1. TypeOK'
      BY <2>1, NextKind
    <3> QED
      BY <2>1, <3>1, WindowKeeps
  <2>2. ASSUME WindowInv, UNCHANGED vars PROVE WindowInv'
    BY <2>2 DEF WindowInv, HelloFirst, AskedInTurn, AheadInTurn, FirstIsNew, InBudget, Budget,
                Waiting, vars
  <2> QED
    BY <2>1, <2>2
<1> QED
  BY <1>1, <1>2, WindowInit, InvCorrect, PTL DEF Spec

=============================================================================
