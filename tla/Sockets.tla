------------------------------ MODULE Sockets ------------------------------
(***************************************************************************)
(* The descriptors of lwIP's socket table and the two tasks that use them: *)
(* the WebSocket server (src/websocket.cpp), with its listening socket and *)
(* one client, and mqtt_task (src/MQTT.cpp) with the socket of its         *)
(* Network (MQTTFreeRTOS.cpp).  Every call of lwIP is a step of its own;   *)
(* the tasks run on two cores.                                             *)
(*                                                                         *)
(* Each round of the server ends with the status message and the messages  *)
(* of websocketQueue, into which the sensors put their readings (Sensor).  *)
(* The MQTT session is one state here: MqttClient has its inside.          *)
(***************************************************************************)
EXTENDS WebSocket, FiniteSets, FiniteSetsExt

CONSTANTS
    MEMP_NUM_NETCONN,          \* size of the socket table
    QueueLength,               \* of websocketQueue
    Requests,                  \* first data from a client
    ClientFrames,              \* frames from a client
    Sizes,                     \* sizes of messages to it
    MaxMessages, MaxFrames     \* bounds: messages queued, frames of one client

ASSUME TableAssumption ==
    /\ {MEMP_NUM_NETCONN, QueueLength} \subseteq Nat \ {0}
    /\ MaxMessages \in Nat /\ MaxFrames \in Nat
    /\ Sizes \subseteq Nat \ {0}

\* A client's frame fits into recv_buf.
ASSUME FramesAssumption ==
    \A f \in ClientFrames :
        /\ f.type \in 0..15 /\ f.fin \in BOOLEAN /\ f.long \in BOOLEAN
        /\ f.mask \in Seq(Byte) /\ Len(f.mask) = 4 /\ f.payload \in Seq(Byte)
        /\ Len(f.payload) <= WS_RECV_BUFFER_SIZE - 8
        /\ ~f.long => Len(f.payload) <= 125

\* A key that fits into concat_key; clients send 24 characters (RFC 6455).
ASSUME RequestsAssumption ==
    \A r \in Requests :
        r.key # NULL => r.key \in Seq(Byte) /\ Len(r.key) + Len(WS_GUID) < CONCAT_KEY

Fds  == 0 .. MEMP_NUM_NETCONN - 1
NONE == -1

VARIABLES
    sockets,        \* what each descriptor is open for, or "free"
    ws_pc,          \* where websocket_server::task is
    listen_sock,
    client,         \* client.socket and client.established
    websocketQueue, \* messages <<number, size>>
    made,           \* messages put into it so far
    peer,           \* what the client has sent and got over its connection
    handed,         \* what this round has given to msg_handler
    mqtt_pc,        \* where mqtt_task is
    my_socket,      \* network.my_socket
    broker          \* a broker is set; a change of this setting reboots

data == <<websocketQueue, made, peer, handed>>
ws   == <<ws_pc, listen_sock, client, data>>
mqtt == <<mqtt_pc, my_socket, broker>>
vars == <<sockets, ws, mqtt>>

TypeOK ==
    /\ sockets \in [Fds -> {"free", "listen", "client", "mqtt"}]
    /\ ws_pc \in {"create", "bind", "loop", "select", "recv", "status", "drain", "deleted"}
    /\ listen_sock \in Fds \cup {NONE}
    /\ client \in [socket : Fds \cup {NONE}, established : BOOLEAN]
    /\ mqtt_pc \in {"off", "outer", "connect", "session", "close"}
    /\ my_socket \in Fds \cup {NONE}
    /\ broker \in BOOLEAN
    /\ Len(websocketQueue) <= QueueLength /\ made \in 0..MaxMessages
    /\ ws_pc \notin {"create", "deleted"} => listen_sock \in Fds
    /\ ws_pc \in {"select", "recv"} => client.socket \in Fds
    /\ mqtt_pc \in {"connect", "session"} => my_socket \in Fds

NoClient == [socket |-> NONE, established |-> FALSE]
NewPeer == [key |-> NULL, accept |-> NULL, frames |-> 0, stream |-> <<>>, cut |-> FALSE]

Init ==
    /\ sockets = [fd \in Fds |-> "free"]
    /\ ws_pc = "create" /\ listen_sock = NONE /\ client = NoClient
    /\ websocketQueue = <<>> /\ made = 0 /\ peer = NewPeer /\ handed = NULL
    /\ mqtt_pc = "off" /\ my_socket = NONE
    /\ broker \in BOOLEAN

-----------------------------------------------------------------------------
(* lwIP.                                                                   *)

Free == {fd \in Fds : sockets[fd] = "free"}

\* alloc_socket takes the lowest free descriptor; it fails when there is
\* none or no memory for the connection.
Open(use, fd) ==
    \/ /\ Free # {}
       /\ fd = Min(Free)
       /\ sockets' = [sockets EXCEPT ![fd] = use]
    \/ /\ fd = NONE
       /\ UNCHANGED sockets

\* lwip_close; of a descriptor that is not open it only returns an error.
Close(fd) == sockets' = [d \in Fds |-> IF d = fd THEN "free" ELSE sockets[d]]

-----------------------------------------------------------------------------
(* websocket_server::task.                                                 *)

\* The queue is there from here on.
WsCreate ==
    /\ ws_pc = "create"
    /\ \E fd \in Fds \cup {NONE} :
          /\ Open("listen", fd)
          /\ listen_sock' = fd
          /\ ws_pc' = IF fd = NONE THEN "deleted" ELSE "bind"
    /\ UNCHANGED <<client, data, mqtt>>

WsListen ==
    /\ ws_pc = "bind"
    /\ ws_pc' = "loop"
    /\ UNCHANGED <<sockets, listen_sock, client, data, mqtt>>

WsListenFails ==
    /\ ws_pc = "bind"
    /\ Close(listen_sock)
    /\ ws_pc' = "deleted"
    /\ UNCHANGED <<listen_sock, client, data, mqtt>>

\* lwip_select and lwip_accept on the listening socket.
WsAccept ==
    /\ ws_pc = "loop" /\ client.socket = NONE
    /\ sockets[listen_sock] = "listen"
    /\ \E fd \in Fds \cup {NONE} :
          /\ Open("client", fd)
          /\ client' = [client EXCEPT !.socket = fd]
    /\ peer' = NewPeer
    /\ ws_pc' = "status"
    /\ UNCHANGED <<listen_sock, websocketQueue, made, handed, mqtt>>

\* lwip_select has nothing in time, or listen_sock is no longer what it was.
WsSelectNothing ==
    /\ ws_pc = "loop"
    /\ client.socket # NONE => sockets[client.socket] # "free"
    /\ ws_pc' = "status"
    /\ UNCHANGED <<sockets, listen_sock, client, data, mqtt>>

\* lwip_select on the client's socket: something to read, or an error
\* because the descriptor is not open.
WsReadable ==
    /\ ws_pc = "loop" /\ client.socket # NONE
    /\ sockets[client.socket] # "free"
    /\ ws_pc' = "recv"
    /\ UNCHANGED <<sockets, listen_sock, client, data, mqtt>>

WsSelectError ==
    /\ ws_pc = "loop" /\ client.socket # NONE
    /\ sockets[client.socket] = "free"
    /\ ws_pc' = "select"
    /\ UNCHANGED <<sockets, listen_sock, client, data, mqtt>>

WsSelectClose ==
    /\ ws_pc = "select"
    /\ Close(client.socket)
    /\ client' = NoClient
    /\ ws_pc' = "status"
    /\ UNCHANGED <<listen_sock, data, mqtt>>

\* lwip_recv returns 0 or an error.  The handshake that the code goes on to
\* finds an empty buffer, fails and closes descriptor -1.
WsDisconnected ==
    /\ ws_pc = "recv"
    /\ Close(client.socket)
    /\ client' = NoClient
    /\ ws_pc' = "status"
    /\ UNCHANGED <<listen_sock, data, mqtt>>

\* lwip_send: everything, or nothing because of an error.  What it sends
\* reaches the client only when the descriptor still is the client's.
Sent(p, items) ==
    {p} \cup IF sockets[client.socket] = "client" THEN {[p EXCEPT !.stream = @ \o items]} ELSE {}

WsHandshake ==
    /\ ws_pc = "recv" /\ ~client.established
    /\ \E r \in Requests :
          /\ process_handshake(r) # NULL
          /\ peer' = IF sockets[client.socket] = "client"
                     THEN [peer EXCEPT !.key = r.key, !.accept = process_handshake(r)] ELSE peer
    /\ client' = [client EXCEPT !.established = TRUE]
    /\ ws_pc' = "status"
    /\ UNCHANGED <<sockets, listen_sock, websocketQueue, made, handed, mqtt>>

\* Not a handshake, or the answer could not be sent.
WsHandshakeFails ==
    /\ ws_pc = "recv" /\ ~client.established
    /\ Close(client.socket)
    /\ client' = [client EXCEPT !.socket = NONE]
    /\ ws_pc' = "status"
    /\ UNCHANGED <<listen_sock, data, mqtt>>

\* What lwip_recv returns: a frame, or the beginning of one.
Frames == {[bytes |-> ClientFrame(f), of |-> f] : f \in ClientFrames}
Received == Frames \cup {[bytes |-> SubSeq(f.bytes, 1, n), of |-> NULL] : f \in Frames, n \in {1, 5}}

\* A frame is received (bound: a number of them on one connection).
Receives(r) ==
    /\ ws_pc = "recv" /\ client.established
    /\ peer.frames < MaxFrames
    /\ r \in Received

Counted == [peer EXCEPT !.frames = @ + 1]

\* Mutation of WsCloseFrame: established is left as it was.
WsCloseFrame_stays ==
    /\ \E r \in Received : Receives(r) /\ HasHeader(r.bytes) /\ Type(r.bytes) = WS_TYPE_CLOSE
    /\ peer' \in Sent(Counted, close_frame)
    /\ Close(client.socket)
    /\ client' = [client EXCEPT !.socket = NONE]
    /\ ws_pc' = "status"
    /\ UNCHANGED <<listen_sock, websocketQueue, made, handed, mqtt>>

\* handle_frame: CLOSE is answered and the socket closed.
WsCloseFrame ==
    /\ \E r \in Received : Receives(r) /\ HasHeader(r.bytes) /\ Type(r.bytes) = WS_TYPE_CLOSE
    /\ peer' \in Sent(Counted, close_frame)
    /\ Close(client.socket)
    /\ client' = NoClient
    /\ ws_pc' = "status"
    /\ UNCHANGED <<listen_sock, websocketQueue, made, handed, mqtt>>

WsPing ==
    /\ \E r \in Received : Receives(r) /\ HasHeader(r.bytes) /\ Type(r.bytes) = WS_TYPE_PING
    /\ peer' \in Sent(Counted, pong_frame)
    /\ ws_pc' = "status"
    /\ UNCHANGED <<sockets, listen_sock, client, websocketQueue, made, handed, mqtt>>

\* Data goes to msg_handler when it is the last frame of its message.
WsData ==
    /\ \E r \in Received :
          /\ Receives(r) /\ HasHeader(r.bytes)
          /\ Type(r.bytes) \notin {WS_TYPE_PING, WS_TYPE_PONG, WS_TYPE_CLOSE}
          /\ handed' = IF is_fin_msg(r.bytes)
                       THEN [payload |-> Payload(r.bytes), of |-> r.of] ELSE handed
    /\ peer' = Counted
    /\ ws_pc' = "status"
    /\ UNCHANGED <<sockets, listen_sock, client, websocketQueue, made, mqtt>>

\* PONG, or less than a header.
WsIgnored ==
    /\ \E r \in Received :
          Receives(r) /\ (HasHeader(r.bytes) => Type(r.bytes) = WS_TYPE_PONG)
    /\ peer' = Counted
    /\ ws_pc' = "status"
    /\ UNCHANGED <<sockets, listen_sock, client, websocketQueue, made, handed, mqtt>>

\* xQueueSend without waiting.
Queued(size) ==
    /\ made < MaxMessages
    /\ made' = made + 1
    /\ websocketQueue' = IF Len(websocketQueue) < QueueLength
                         THEN Append(websocketQueue, <<made + 1, size>>) ELSE websocketQueue

\* The status message, when there is a client and 500 ms are over.
WsStatus ==
    /\ ws_pc = "status"
    /\ \/ UNCHANGED <<websocketQueue, made>>
       \/ client.established /\ \E size \in Sizes : Queued(size)
    /\ handed' = NULL
    /\ ws_pc' = "drain"
    /\ UNCHANGED <<sockets, listen_sock, client, peer, mqtt>>

\* The outcomes of send_message; within its timeout a part may be sent.
send_message(m) ==
    LET frame == MessageFrame(m)
    IN  IF ~MessageFits(m) \/ ~client.established THEN {peer}
        ELSE Sent(peer, frame) \cup
             {[p EXCEPT !.cut = TRUE] : p \in Sent(peer, SubSeq(frame, 1, Len(frame) - 1)) \ {peer}}

WsDrain ==
    /\ ws_pc = "drain" /\ websocketQueue # <<>>
    /\ websocketQueue' = Tail(websocketQueue)
    /\ peer' \in send_message(Head(websocketQueue))
    /\ UNCHANGED <<sockets, ws_pc, listen_sock, client, made, handed, mqtt>>

WsRoundEnds ==
    /\ ws_pc = "drain" /\ websocketQueue = <<>>
    /\ ws_pc' = "loop"
    /\ UNCHANGED <<sockets, listen_sock, client, data, mqtt>>

\* Sensor::publish, for any of the sensors' tasks.
Publish(size) ==
    /\ ws_pc # "create"
    /\ Queued(size)
    /\ UNCHANGED <<sockets, ws_pc, listen_sock, client, peer, handed, mqtt>>

-----------------------------------------------------------------------------
(* mqtt_task.                                                              *)

\* main_task calls mqtt_init once the network is up, long after it started
\* the WebSocket server.  NetworkInit.
MqttInit ==
    /\ mqtt_pc = "off" /\ ws_pc \notin {"create", "bind"}
    /\ my_socket' = 0
    /\ mqtt_pc' = "outer"
    /\ UNCHANGED <<sockets, ws, broker>>

MqttNoBroker ==
    /\ mqtt_pc = "outer" /\ ~broker
    /\ mqtt_pc' = "close"
    /\ UNCHANGED <<sockets, ws, my_socket, broker>>

\* NetworkConnectWithTimeout: the socket.
MqttSocket ==
    /\ mqtt_pc = "outer" /\ broker
    /\ \E fd \in Fds \cup {NONE} :
          /\ Open("mqtt", fd)
          /\ my_socket' = fd
          /\ mqtt_pc' = IF fd = NONE THEN "close" ELSE "connect"
    /\ UNCHANGED <<ws, broker>>

\* The connection is made, or lwip_connect fails at once, which counts as a
\* success.
MqttConnected ==
    /\ mqtt_pc = "connect"
    /\ mqtt_pc' = "session"
    /\ UNCHANGED <<sockets, ws, my_socket, broker>>

\* No answer in time, an answer that is an error, or lwip_select fails.
MqttConnectFails ==
    /\ mqtt_pc = "connect"
    /\ Close(my_socket)
    /\ mqtt_pc' = "close"
    /\ UNCHANGED <<ws, my_socket, broker>>

\* MQTTConnect or MQTTPublish fails.
MqttSessionEnds ==
    /\ mqtt_pc = "session"
    /\ mqtt_pc' = "close"
    /\ UNCHANGED <<sockets, ws, my_socket, broker>>

\* Mutation of MqttClose: the socket is left open.
MqttClose_keeps_socket ==
    /\ mqtt_pc = "close"
    /\ mqtt_pc' = "outer"
    /\ UNCHANGED <<sockets, ws, my_socket, broker>>

\* network.disconnect, and a pause.
MqttClose ==
    /\ mqtt_pc = "close"
    /\ Close(my_socket)
    /\ mqtt_pc' = "outer"
    /\ UNCHANGED <<ws, my_socket, broker>>

Next ==
    \/ WsCreate \/ WsListen \/ WsListenFails \/ WsAccept \/ WsSelectNothing \/ WsReadable
    \/ WsSelectError \/ WsSelectClose \/ WsDisconnected \/ WsHandshake \/ WsHandshakeFails
    \/ WsCloseFrame \/ WsPing \/ WsData \/ WsIgnored \/ WsStatus \/ WsDrain \/ WsRoundEnds
    \/ \E size \in Sizes : Publish(size)
    \/ MqttInit \/ MqttNoBroker \/ MqttSocket \/ MqttConnected \/ MqttConnectFails
    \/ MqttSessionEnds \/ MqttClose

Spec == Init /\ [][Next]_vars

-----------------------------------------------------------------------------
\* Neither task leaks a socket, though each of them may close what the other
\* one has opened: at most one is open for each use.
NoLeak ==
    \A use \in {"listen", "client", "mqtt"} : Cardinality({fd \in Fds : sockets[fd] = use}) <= 1

\* A round that found its client gone goes on into the handshake, and still
\* never leaves the server believing in a client without a socket, to which
\* it would send every reading.
EstablishedHasSocket == client.established => client.socket # NONE

\* The client finds in the server's answer the hash of its own key.
HandshakeAccepted ==
    peer.accept # NULL => IsBase64Of(peer.accept, Sha1(peer.key \o WS_GUID))

\* A client that takes the stream apart finds whole frames, and in them the
\* messages once each and in the order in which they were queued, whatever
\* PINGs it sends meanwhile; unless a message was sent only in part.
StreamDecodes ==
    LET s      == peer.stream
        frames == FrameStarts(s) \ {Len(s) + 1}
        texts  == {i \in frames : TypeAt(s, i) = WS_TYPE_TEXT}
    IN  ~peer.cut =>
          /\ \A i \in frames :
                IsWhole(s, i) /\ TypeAt(s, i) \in {WS_TYPE_TEXT, WS_TYPE_PONG, WS_TYPE_CLOSE}
          /\ \A i, j \in texts : i < j => s[TextAt(s, i)][1] < s[TextAt(s, j)][1]

\* Server and client find in each other's frames what was put into them: the
\* client the messages of the queue (send_message), msg_handler what the
\* client masked, with both forms of the length (get_payload_ptr).
FramesUnderstood ==
    /\ StreamDecodes
    /\ handed # NULL /\ handed.of # NULL => handed.payload = handed.of.payload
=============================================================================
