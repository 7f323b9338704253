--------------------------- MODULE SocketsProofs ---------------------------
(***************************************************************************)
(* The socket table and its two tasks (src/websocket.cpp, src/MQTT.cpp),   *)
(* for every size of the table, every queue, every client and any number   *)
(* of messages: no socket is leaked, an established client has one, and    *)
(* server and client read in each other's frames and in the answer to the  *)
(* handshake what the protocol says.                                       *)
(*                                                                         *)
(* Both tasks close numbers they remember, which by then may stand for a   *)
(* socket of the other one.  So a remembered number says nothing of what   *)
(* is open; the argument goes the other way, from each open socket to the  *)
(* variable of its task that still holds its number.                       *)
(***************************************************************************)
EXTENDS Sockets, FiniteSetTheorems, SequenceTheorems, WellFoundedInduction, TLAPS

Uses == {"free", "listen", "client", "mqtt"}

(* What the table and the tasks' variables hold. *)
Types ==
    /\ sockets \in [Fds -> Uses]
    /\ listen_sock \in Fds \cup {NONE}
    /\ client.socket \in Fds \cup {NONE}
    /\ client = [socket |-> client.socket, established |-> client.established]
    /\ my_socket \in Fds \cup {NONE}

(* Each open socket is the one its task remembers. *)
Owned ==
    \A fd \in Fds :
        /\ sockets[fd] = "listen" => fd = listen_sock
        /\ sockets[fd] = "client" => fd = client.socket
        /\ sockets[fd] = "mqtt" => fd = my_socket

(* Nothing is open for a use when its task is about to open a socket.  For *)
(* the client, Owned says so: -1 is not a descriptor.                      *)
Opened ==
    \A fd \in Fds :
        /\ ws_pc = "create" => sockets[fd] # "listen"
        /\ mqtt_pc \in {"off", "outer"} => sockets[fd] # "mqtt"

(* The client's part, which its disconnection relies on. *)
Reads == ws_pc = "recv" => client.socket # NONE

IInv == Types /\ Owned /\ Opened /\ Reads /\ EstablishedHasSocket

-----------------------------------------------------------------------------
(* Descriptors and the two calls of lwIP. *)

(* -1 is no descriptor. *)
LEMMA NoneIsNoFd == NONE \notin Fds
BY TableAssumption DEF NONE, Fds

(* 0, which NetworkInit puts into my_socket, is one. *)
LEMMA ZeroIsFd == 0 \in Fds
BY TableAssumption DEF Fds

(* A new socket is one descriptor that was free, or there is none and the  *)
(* table stays as it was.                                                  *)
LEMMA OpenOpensOne ==
    ASSUME NEW use, NEW fd \in Fds \cup {NONE}, sockets \in [Fds -> Uses], use \in Uses,
           Open(use, fd)
    PROVE  /\ sockets' \in [Fds -> Uses]
           /\ \A d \in Fds : sockets'[d] = IF d = fd THEN use ELSE sockets[d]
<1>1. CASE fd = NONE
  <2>1. \A d \in Fds : d # fd
    BY <1>1, NoneIsNoFd
  <2>2. CASE UNCHANGED sockets
    BY <2>1, <2>2
  <2>3. CASE sockets' = [sockets EXCEPT ![fd] = use]
    BY <2>1, <2>3
  <2>. QED
    BY <2>2, <2>3 DEF Open
<1>2. CASE fd # NONE
  <2>1. sockets' = [sockets EXCEPT ![fd] = use] /\ fd \in Fds
    BY <1>2 DEF Open
  <2>. QED
    BY <2>1
<1>. QED
  BY <1>1, <1>2

(* A close frees the number it is given, whatever it stands for.           *)
LEMMA CloseFreesOne ==
    ASSUME NEW fd, sockets \in [Fds -> Uses], Close(fd)
    PROVE  /\ sockets' \in [Fds -> Uses]
           /\ \A d \in Fds : sockets'[d] = IF d = fd THEN "free" ELSE sockets[d]
BY DEF Close, Uses

-----------------------------------------------------------------------------

(* At the start nothing is open. *)
LEMMA InitHolds == Init => IInv
<1>. SUFFICES ASSUME Init PROVE IInv
  OBVIOUS
<1>. USE DEF Init, NoClient
<1>1. Types
  BY DEF Types, Uses
<1>2. Owned /\ Opened /\ Reads
  BY DEF Owned, Opened, Reads
<1>3. EstablishedHasSocket
  BY DEF EstablishedHasSocket
<1>. QED
  BY <1>1, <1>2, <1>3 DEF IInv

(* Steps that neither open nor close, nor move to a place where a task     *)
(* reads or opens.                                                         *)
LEMMA Quiet ==
    ASSUME IInv, UNCHANGED <<sockets, listen_sock, client, my_socket>>,
           ws_pc' # "create", ws_pc' # "recv",
           mqtt_pc' = mqtt_pc \/ mqtt_pc' \notin {"off", "outer"}
    PROVE  IInv'
BY DEF IInv, Types, Owned, Opened, Reads, EstablishedHasSocket

(* Steps that leave all of it alone. *)
LEMMA Untouched ==
    ASSUME IInv, UNCHANGED <<sockets, ws_pc, listen_sock, client, mqtt_pc, my_socket>>
    PROVE  IInv'
BY DEF IInv, Types, Owned, Opened, Reads, EstablishedHasSocket

(* The server gives its client up: it closes the number it has and forgets *)
(* it.  When the number is not the client's any more, no socket of the     *)
(* client's is open.                                                       *)
LEMMA ClientGone ==
    ASSUME IInv, Close(client.socket), client' = NoClient,
           ws_pc' = "status", UNCHANGED <<listen_sock, mqtt_pc, my_socket>>
    PROVE  IInv'
<1>1. /\ sockets' \in [Fds -> Uses]
      /\ \A d \in Fds : sockets'[d] = IF d = client.socket THEN "free" ELSE sockets[d]
  BY CloseFreesOne DEF IInv, Types
<1>2. client'.socket = NONE /\ client'.established = FALSE
  BY DEF NoClient
<1>3. Types'
  BY <1>1, <1>2 DEF IInv, Types, NoClient
<1>4. Owned'
  BY <1>1, <1>2 DEF IInv, Owned
<1>5. Opened'
  BY <1>1 DEF IInv, Opened
<1>6. Reads' /\ EstablishedHasSocket'
  BY <1>2 DEF Reads, EstablishedHasSocket
<1>. QED
  BY <1>3, <1>4, <1>5, <1>6 DEF IInv

-----------------------------------------------------------------------------
(* The server's steps. *)

LEMMA ServerStarts == IInv /\ (WsCreate \/ WsListenFails) => IInv'
<1>1. ASSUME IInv, WsCreate PROVE IInv'
  <2>1. PICK fd \in Fds \cup {NONE} : Open("listen", fd) /\ listen_sock' = fd
                                   /\ ws_pc' = IF fd = NONE THEN "deleted" ELSE "bind"
    BY <1>1 DEF WsCreate
  <2>2. UNCHANGED <<client, mqtt_pc, my_socket>>
    BY <1>1 DEF WsCreate, mqtt
  <2>3. /\ sockets' \in [Fds -> Uses]
        /\ \A d \in Fds : sockets'[d] = IF d = fd THEN "listen" ELSE sockets[d]
    BY <1>1, <2>1, OpenOpensOne DEF IInv, Types, Uses
  <2>4. \A d \in Fds : sockets[d] # "listen"
    BY <1>1 DEF WsCreate, IInv, Opened
  <2>5. Types'
    BY <1>1, <2>1, <2>2, <2>3 DEF IInv, Types
  <2>6. Owned' /\ Opened'
    BY <1>1, <2>1, <2>2, <2>3, <2>4 DEF IInv, Owned, Opened
  <2>7. Reads' /\ EstablishedHasSocket'
    BY <1>1, <2>1, <2>2 DEF IInv, Reads, EstablishedHasSocket
  <2>. QED
    BY <2>5, <2>6, <2>7 DEF IInv
<1>2. ASSUME IInv, WsListenFails PROVE IInv'
  <2>1. UNCHANGED <<listen_sock, client, mqtt_pc, my_socket>> /\ ws_pc' = "deleted"
    BY <1>2 DEF WsListenFails, mqtt
  <2>2. /\ sockets' \in [Fds -> Uses]
        /\ \A d \in Fds : sockets'[d] = IF d = listen_sock THEN "free" ELSE sockets[d]
    BY <1>2, CloseFreesOne DEF IInv, Types, WsListenFails
  <2>. QED
    BY <1>2, <2>1, <2>2 DEF IInv, Types, Owned, Opened, Reads, EstablishedHasSocket
<1>. QED
  BY <1>1, <1>2

LEMMA ServerAccepts == IInv /\ WsAccept => IInv'
<1>. SUFFICES ASSUME IInv, WsAccept PROVE IInv'
  OBVIOUS
<1>1. PICK fd \in Fds \cup {NONE} : Open("client", fd) /\ client' = [client EXCEPT !.socket = fd]
  BY DEF WsAccept
<1>2. UNCHANGED <<listen_sock, mqtt_pc, my_socket>> /\ ws_pc' = "status" /\ client.socket = NONE
  BY DEF WsAccept, mqtt
<1>3. /\ sockets' \in [Fds -> Uses]
      /\ \A d \in Fds : sockets'[d] = IF d = fd THEN "client" ELSE sockets[d]
  BY <1>1, OpenOpensOne DEF IInv, Types, Uses
<1>4. client' = [socket |-> fd, established |-> client.established]
  BY <1>1 DEF IInv, Types
<1>5. \A d \in Fds : sockets[d] # "client"
  BY <1>2, NoneIsNoFd DEF IInv, Owned
<1>6. ~client.established
  BY <1>2 DEF IInv, EstablishedHasSocket
<1>7. client'.socket = fd /\ client'.established = client.established
  BY <1>4
<1>8. Types'
  BY <1>2, <1>3, <1>4, <1>7 DEF IInv, Types
<1>9. Owned' /\ Opened'
  BY <1>2, <1>3, <1>5, <1>7 DEF IInv, Owned, Opened
<1>10. Reads' /\ EstablishedHasSocket'
  BY <1>2, <1>6, <1>7 DEF Reads, EstablishedHasSocket
<1>. QED
  BY <1>8, <1>9, <1>10 DEF IInv

LEMMA ServerWaits == IInv /\ (WsListen \/ WsSelectNothing \/ WsReadable \/ WsSelectError) => IInv'
<1>1. ASSUME IInv, WsListen \/ WsSelectNothing \/ WsSelectError PROVE IInv'
  <2>1. /\ UNCHANGED <<sockets, listen_sock, client, my_socket, mqtt_pc>>
        /\ ws_pc' # "create" /\ ws_pc' # "recv"
    BY <1>1 DEF WsListen, WsSelectNothing, WsSelectError, mqtt
  <2>. QED
    BY <1>1, <2>1, Quiet
<1>2. ASSUME IInv, WsReadable PROVE IInv'
  <2>1. /\ UNCHANGED <<sockets, listen_sock, client, my_socket, mqtt_pc>>
        /\ ws_pc' = "recv" /\ client.socket # NONE
    BY <1>2 DEF WsReadable, mqtt
  <2>. QED
    BY <1>2, <2>1 DEF IInv, Types, Owned, Opened, Reads, EstablishedHasSocket
<1>. QED
  BY <1>1, <1>2

LEMMA ServerLosesClient == IInv /\ (WsSelectClose \/ WsDisconnected \/ WsCloseFrame) => IInv'
<1>. SUFFICES ASSUME IInv, WsSelectClose \/ WsDisconnected \/ WsCloseFrame PROVE IInv'
  OBVIOUS
<1>1. /\ Close(client.socket) /\ client' = NoClient
      /\ ws_pc' = "status" /\ UNCHANGED <<listen_sock, mqtt_pc, my_socket>>
  BY DEF WsSelectClose, WsDisconnected, WsCloseFrame, mqtt
<1>. QED
  BY <1>1, ClientGone

LEMMA ServerShakesHands == IInv /\ (WsHandshake \/ WsHandshakeFails) => IInv'
<1>1. ASSUME IInv, WsHandshake PROVE IInv'
  <2>1. /\ ws_pc = "recv" /\ ws_pc' = "status"
        /\ client' = [client EXCEPT !.established = TRUE]
        /\ UNCHANGED <<sockets, listen_sock, mqtt_pc, my_socket>>
    BY <1>1 DEF WsHandshake, mqtt
  <2>2. client' = [socket |-> client.socket, established |-> TRUE]
    BY <1>1, <2>1 DEF IInv, Types
  <2>3. client'.socket = client.socket /\ client.socket # NONE
    BY <1>1, <2>1, <2>2 DEF IInv, Reads
  <2>. QED
    BY <1>1, <2>1, <2>2, <2>3 DEF IInv, Types, Owned, Opened, Reads, EstablishedHasSocket
<1>2. ASSUME IInv, WsHandshakeFails PROVE IInv'
  <2>1. /\ ws_pc' = "status" /\ ~client.established /\ Close(client.socket)
        /\ client' = [client EXCEPT !.socket = NONE]
        /\ UNCHANGED <<listen_sock, mqtt_pc, my_socket>>
    BY <1>2 DEF WsHandshakeFails, mqtt
  <2>2. client' = [socket |-> NONE, established |-> client.established]
    BY <1>2, <2>1 DEF IInv, Types
  <2>3. client'.socket = NONE /\ client'.established = client.established
    BY <2>2
  <2>4. /\ sockets' \in [Fds -> Uses]
        /\ \A d \in Fds : sockets'[d] = IF d = client.socket THEN "free" ELSE sockets[d]
    BY <1>2, <2>1, CloseFreesOne DEF IInv, Types
  <2>5. Types'
    BY <1>2, <2>1, <2>2, <2>3, <2>4 DEF IInv, Types
  <2>6. Owned' /\ Opened'
    BY <1>2, <2>1, <2>3, <2>4 DEF IInv, Owned, Opened
  <2>7. Reads' /\ EstablishedHasSocket'
    BY <2>1, <2>3 DEF Reads, EstablishedHasSocket
  <2>. QED
    BY <2>5, <2>6, <2>7 DEF IInv
<1>. QED
  BY <1>1, <1>2

LEMMA ServerTalks == IInv /\ (WsPing \/ WsData \/ WsIgnored \/ WsStatus \/ WsRoundEnds) => IInv'
<1>. SUFFICES ASSUME IInv, WsPing \/ WsData \/ WsIgnored \/ WsStatus \/ WsRoundEnds PROVE IInv'
  OBVIOUS
<1>1. /\ UNCHANGED <<sockets, listen_sock, client, my_socket, mqtt_pc>>
      /\ ws_pc' # "create" /\ ws_pc' # "recv"
  BY DEF WsPing, WsData, WsIgnored, WsStatus, WsRoundEnds, mqtt
<1>. QED
  BY <1>1, Quiet

-----------------------------------------------------------------------------
(* mqtt_task's steps. *)

LEMMA MqttConnects ==
    IInv /\ (MqttInit \/ MqttNoBroker \/ MqttSocket \/ MqttConnected \/ MqttSessionEnds) => IInv'
<1>1. ASSUME IInv, MqttInit PROVE IInv'
  <2>1. /\ mqtt_pc = "off" /\ my_socket' = 0 /\ mqtt_pc' = "outer"
        /\ UNCHANGED <<sockets, ws_pc, listen_sock, client>>
    BY <1>1 DEF MqttInit, ws
  <2>. QED
    BY <1>1, <2>1, ZeroIsFd DEF IInv, Types, Owned, Opened, Reads, EstablishedHasSocket
<1>2. ASSUME IInv, MqttSocket PROVE IInv'
  <2>1. PICK fd \in Fds \cup {NONE} : Open("mqtt", fd) /\ my_socket' = fd
                                   /\ mqtt_pc' = IF fd = NONE THEN "close" ELSE "connect"
    BY <1>2 DEF MqttSocket
  <2>2. mqtt_pc = "outer" /\ UNCHANGED <<ws_pc, listen_sock, client>>
    BY <1>2 DEF MqttSocket, ws
  <2>3. /\ sockets' \in [Fds -> Uses]
        /\ \A d \in Fds : sockets'[d] = IF d = fd THEN "mqtt" ELSE sockets[d]
    BY <1>2, <2>1, OpenOpensOne DEF IInv, Types, Uses
  <2>4. \A d \in Fds : sockets[d] # "mqtt"
    BY <1>2, <2>2 DEF IInv, Opened
  <2>5. Types'
    BY <1>2, <2>1, <2>2, <2>3 DEF IInv, Types
  <2>6. Owned' /\ Opened'
    BY <1>2, <2>1, <2>2, <2>3, <2>4 DEF IInv, Owned, Opened
  <2>7. Reads' /\ EstablishedHasSocket'
    BY <1>2, <2>2 DEF IInv, Reads, EstablishedHasSocket
  <2>. QED
    BY <2>5, <2>6, <2>7 DEF IInv
<1>3. ASSUME IInv, MqttNoBroker \/ MqttConnected \/ MqttSessionEnds PROVE IInv'
  <2>1. /\ UNCHANGED <<sockets, ws_pc, listen_sock, client, my_socket>>
        /\ mqtt_pc' \notin {"off", "outer"}
    BY <1>3 DEF MqttNoBroker, MqttConnected, MqttSessionEnds, ws
  <2>. QED
    BY <1>3, <2>1 DEF IInv, Types, Owned, Opened, Reads, EstablishedHasSocket
<1>. QED
  BY <1>1, <1>2, <1>3

(* The second close of a failed connection may hit a socket of the server; *)
(* either way none of mqtt_task's is left when it opens the next one.      *)
LEMMA MqttCloses == IInv /\ (MqttConnectFails \/ MqttClose) => IInv'
<1>. SUFFICES ASSUME IInv, MqttConnectFails \/ MqttClose PROVE IInv'
  OBVIOUS
<1>1. /\ Close(my_socket) /\ mqtt_pc' \in {"close", "outer"}
      /\ UNCHANGED <<ws_pc, listen_sock, client, my_socket>>
  BY DEF MqttConnectFails, MqttClose, ws
<1>2. /\ sockets' \in [Fds -> Uses]
      /\ \A d \in Fds : sockets'[d] = IF d = my_socket THEN "free" ELSE sockets[d]
  BY <1>1, CloseFreesOne DEF IInv, Types
<1>3. \A d \in Fds : sockets'[d] # "mqtt"
  BY <1>2 DEF IInv, Owned
<1>4. Types'
  BY <1>1, <1>2 DEF IInv, Types
<1>5. Owned' /\ Opened'
  BY <1>1, <1>2, <1>3 DEF IInv, Owned, Opened
<1>6. Reads' /\ EstablishedHasSocket'
  BY <1>1 DEF IInv, Reads, EstablishedHasSocket
<1>. QED
  BY <1>4, <1>5, <1>6 DEF IInv

-----------------------------------------------------------------------------

(* Each open socket is the one its task remembers, and a task that opens a *)
(* socket has none: IInv holds throughout.                                 *)
THEOREM Invariance == Spec => []IInv
<1>1. ASSUME IInv, [Next]_vars PROVE IInv'
  <2>1. CASE UNCHANGED vars
    BY <1>1, <2>1, Untouched DEF vars, ws, mqtt
  <2>2. CASE WsDrain \/ \E size \in Sizes : Publish(size)
    <3>1. UNCHANGED <<sockets, ws_pc, listen_sock, client, mqtt_pc, my_socket>>
      BY <2>2 DEF WsDrain, Publish, mqtt
    <3>. QED
      BY <1>1, <3>1, Untouched
  <2>3. CASE Next /\ ~(WsDrain \/ \E size \in Sizes : Publish(size))
    BY <1>1, <2>3, ServerStarts, ServerAccepts, ServerWaits, ServerLosesClient,
       ServerShakesHands, ServerTalks, MqttConnects, MqttCloses DEF Next
  <2>. QED
    BY <1>1, <2>1, <2>2, <2>3
<1>. QED
  BY <1>1, InitHolds, PTL DEF Spec

(* Neither task leaks a socket, in a table of any size and however their   *)
(* calls of lwip_close and lwip_socket fall between each other's: at most  *)
(* one is open for each use.                                               *)
THEOREM NothingLeaks == Spec => []NoLeak
<1>1. IInv => NoLeak
  <2>. SUFFICES ASSUME IInv, NEW use \in {"listen", "client", "mqtt"}
                PROVE  Cardinality({fd \in Fds : sockets[fd] = use}) <= 1
    BY DEF NoLeak
  <2>. DEFINE S == {fd \in Fds : sockets[fd] = use}
  <2>1. \E x : S \subseteq {x}
    BY DEF IInv, Owned
  <2>2. PICK x : S \subseteq {x}
    BY <2>1
  <2>3. S = {} \/ S = {x}
    BY <2>2
  <2>4. Cardinality(S) = 0 \/ Cardinality(S) = 1
    BY <2>3, FS_EmptySet, FS_Singleton
  <2>. QED
    BY <2>4
<1>. QED
  BY <1>1, Invariance, PTL

(* The server never believes in a client without a socket, whichever way   *)
(* the connection ended (websocket_server::task).                          *)
THEOREM EstablishedStays == Spec => []EstablishedHasSocket
<1>1. IInv => EstablishedHasSocket
  BY DEF IInv
<1>. QED
  BY <1>1, Invariance, PTL

-----------------------------------------------------------------------------
(***************************************************************************)
(* Frames of the client.  Unmasking undoes masking, bit by bit, and        *)
(* get_payload_ptr finds the payload behind either form of the length.     *)
(***************************************************************************)

(* A byte is the sum of its bits. *)
LEMMA BitsOf ==
    ASSUME NEW a \in Byte
    PROVE  /\ a = BitOf(a, 1) + 2 * BitOf(a, 2) + 4 * BitOf(a, 4) + 8 * BitOf(a, 8) + 16 * BitOf(a, 16)
                  + 32 * BitOf(a, 32) + 64 * BitOf(a, 64) + 128 * BitOf(a, 128)
           /\ \A w \in {1, 2, 4, 8, 16, 32, 64, 128} : BitOf(a, w) \in {0, 1}
BY DEF Byte, BitOf

(* The bits of a sum of bits. *)
LEMMA BitsOfSum ==
    ASSUME NEW x1 \in {0, 1}, NEW x2 \in {0, 1}, NEW x4 \in {0, 1}, NEW x8 \in {0, 1},
           NEW x16 \in {0, 1}, NEW x32 \in {0, 1}, NEW x64 \in {0, 1}, NEW x128 \in {0, 1},
           NEW a, a = x1 + 2 * x2 + 4 * x4 + 8 * x8 + 16 * x16 + 32 * x32 + 64 * x64 + 128 * x128
    PROVE  /\ a \in Byte
           /\ BitOf(a, 1) = x1 /\ BitOf(a, 2) = x2 /\ BitOf(a, 4) = x4 /\ BitOf(a, 8) = x8
           /\ BitOf(a, 16) = x16 /\ BitOf(a, 32) = x32 /\ BitOf(a, 64) = x64 /\ BitOf(a, 128) = x128
BY DEF Byte, BitOf

(* Masking twice is not masking (unmask_message_payload). *)
LEMMA XorTwice ==
    ASSUME NEW a \in Byte, NEW m \in Byte
    PROVE  Xor(a, m) \in Byte /\ Xor(m, Xor(a, m)) = a
<1> DEFINE q == Xor(a, m)
           x(w) == (BitOf(a, w) + BitOf(m, w)) % 2
           W == {1, 2, 4, 8, 16, 32, 64, 128}
<1>1. \A w \in W : BitOf(a, w) \in {0, 1} /\ BitOf(m, w) \in {0, 1} /\ x(w) \in {0, 1}
  BY BitsOf
<1>2. q = x(1) + 2 * x(2) + 4 * x(4) + 8 * x(8) + 16 * x(16) + 32 * x(32) + 64 * x(64) + 128 * x(128)
  BY <1>1 DEF Xor, XorBit
<1> HIDE DEF q, x
<1>3. q \in Byte /\ \A w \in W : BitOf(q, w) = x(w)
  <2>1. /\ x(1) \in {0, 1} /\ x(2) \in {0, 1} /\ x(4) \in {0, 1} /\ x(8) \in {0, 1}
        /\ x(16) \in {0, 1} /\ x(32) \in {0, 1} /\ x(64) \in {0, 1} /\ x(128) \in {0, 1}
    BY <1>1
  <2>2. /\ q \in Byte
        /\ BitOf(q, 1) = x(1) /\ BitOf(q, 2) = x(2) /\ BitOf(q, 4) = x(4) /\ BitOf(q, 8) = x(8)
        /\ BitOf(q, 16) = x(16) /\ BitOf(q, 32) = x(32) /\ BitOf(q, 64) = x(64)
        /\ BitOf(q, 128) = x(128)
    BY <1>2, <2>1, BitsOfSum
  <2> QED BY <2>2
<1>4. ASSUME NEW w \in W PROVE XorBit(m, q, w) = w * BitOf(a, w)
  <2>1. BitOf(a, w) \in {0, 1} /\ BitOf(m, w) \in {0, 1}
    BY <1>1
  <2>2. (BitOf(m, w) + ((BitOf(a, w) + BitOf(m, w)) % 2)) % 2 = BitOf(a, w)
    BY <2>1
  <2> QED BY <1>3, <2>2 DEF XorBit, x
<1>5. Xor(m, q) = 1 * BitOf(a, 1) + 2 * BitOf(a, 2) + 4 * BitOf(a, 4) + 8 * BitOf(a, 8)
                  + 16 * BitOf(a, 16) + 32 * BitOf(a, 32) + 64 * BitOf(a, 64) + 128 * BitOf(a, 128)
  BY <1>4 DEF Xor
<1>6. Xor(m, q) = a
  BY <1>1, <1>5, BitsOf
<1> QED BY <1>3, <1>6 DEF q

(* What stands where in a frame of the client. *)
LEMMA TwoParts ==
    ASSUME NEW S, NEW a \in Seq(S), NEW b \in Seq(S), NEW s, s = a \o b
    PROVE  /\ s \in Seq(S) /\ Len(s) = Len(a) + Len(b)
           /\ \A i \in 1..Len(a) : s[i] = a[i]
           /\ \A i \in 1..Len(b) : s[Len(a) + i] = b[i]
OBVIOUS

LEMMA FourParts ==
    ASSUME NEW a \in Seq(Byte), NEW b \in Seq(Byte), NEW c \in Seq(Byte), NEW d \in Seq(Byte),
           NEW s, s = a \o b \o c \o d
    PROVE  /\ s \in Seq(Byte) /\ Len(s) = Len(a) + Len(b) + Len(c) + Len(d)
           /\ \A i \in 1..Len(a) : s[i] = a[i]
           /\ \A i \in 1..Len(b) : s[Len(a) + i] = b[i]
           /\ \A i \in 1..Len(c) : s[Len(a) + Len(b) + i] = c[i]
           /\ \A i \in 1..Len(d) : s[Len(a) + Len(b) + Len(c) + i] = d[i]
<1> DEFINE ab == a \o b
           abc == ab \o c
           all == abc \o d
<1>1. /\ ab \in Seq(Byte) /\ Len(ab) = Len(a) + Len(b)
      /\ \A i \in 1..Len(a) : ab[i] = a[i]
      /\ \A i \in 1..Len(b) : ab[Len(a) + i] = b[i]
  BY TwoParts
<1> HIDE DEF ab
<1>2. /\ abc \in Seq(Byte) /\ Len(abc) = Len(ab) + Len(c)
      /\ \A i \in 1..Len(ab) : abc[i] = ab[i]
      /\ \A i \in 1..Len(c) : abc[Len(ab) + i] = c[i]
  <2>1. ab \in Seq(Byte)
    BY <1>1
  <2> QED BY <2>1, TwoParts
<1> HIDE DEF abc
<1>3. /\ all \in Seq(Byte) /\ Len(all) = Len(abc) + Len(d)
      /\ \A i \in 1..Len(abc) : all[i] = abc[i]
      /\ \A i \in 1..Len(d) : all[Len(abc) + i] = d[i]
  <2>1. abc \in Seq(Byte)
    BY <1>2
  <2> QED BY <2>1, TwoParts
<1>4. s = all
  BY DEF abc, ab
<1> HIDE DEF all
<1>5. /\ Len(a) \in Nat /\ Len(b) \in Nat /\ Len(c) \in Nat /\ Len(d) \in Nat
      /\ Len(ab) \in Nat /\ Len(abc) \in Nat
  BY <1>1, <1>2
<1>6. s \in Seq(Byte) /\ Len(s) = Len(a) + Len(b) + Len(c) + Len(d)
  BY <1>1, <1>2, <1>3, <1>4, <1>5
<1>7. ASSUME NEW i \in 1..Len(a) PROVE s[i] = a[i]
  <2>1. i \in 1..Len(ab) /\ i \in 1..Len(abc)
    BY <1>1, <1>2, <1>5
  <2> QED BY <1>1, <1>2, <1>3, <1>4, <2>1
<1>8. ASSUME NEW i \in 1..Len(b) PROVE s[Len(a) + i] = b[i]
  <2>1. Len(a) + i \in 1..Len(ab) /\ Len(a) + i \in 1..Len(abc)
    BY <1>1, <1>2, <1>5
  <2> QED BY <1>1, <1>2, <1>3, <1>4, <2>1
<1>9. ASSUME NEW i \in 1..Len(c) PROVE s[Len(a) + Len(b) + i] = c[i]
  <2>1. Len(ab) + i \in 1..Len(abc)
    BY <1>1, <1>2, <1>5
  <2>2. s[Len(ab) + i] = c[i]
    BY <1>2, <1>3, <1>4, <2>1
  <2> QED BY <1>1, <2>2
<1>10. ASSUME NEW i \in 1..Len(d) PROVE s[Len(a) + Len(b) + Len(c) + i] = d[i]
  <2>1. s[Len(abc) + i] = d[i]
    BY <1>3, <1>4
  <2> QED BY <1>1, <1>2, <2>1
<1> QED BY <1>6, <1>7, <1>8, <1>9, <1>10

(* The payload that handle_frame finds is the one that was masked. *)
LEMMA PayloadFound ==
    ASSUME NEW f \in ClientFrames
    PROVE  Payload(ClientFrame(f)) = f.payload
<1> DEFINE n == Len(f.payload)
           a == <<f.type + IF f.fin THEN WS_FIN_FLAG ELSE 0>>
           b == IF f.long THEN <<126 + WS_MASKED_FLAG, n \div 256, n % 256>>
                ELSE <<n + WS_MASKED_FLAG>>
           d == [i \in DOMAIN f.payload |-> Xor(f.payload[i], f.mask[((i - 1) % 4) + 1])]
           msg == ClientFrame(f)
           at == 2 + 4 + IF f.long THEN 2 ELSE 0
<1>1. /\ f.type \in 0..15 /\ f.fin \in BOOLEAN /\ f.long \in BOOLEAN
      /\ f.mask \in Seq(Byte) /\ Len(f.mask) = 4 /\ f.payload \in Seq(Byte) /\ n \in Nat
  BY FramesAssumption
<1>n. n \in 0..504
  <2>1. n \in Nat
    BY <1>1
  <2>2. n <= WS_RECV_BUFFER_SIZE - 8
    BY FramesAssumption
  <2> HIDE DEF n
  <2> QED BY <2>1, <2>2 DEF WS_RECV_BUFFER_SIZE
<1>s. ASSUME ~f.long PROVE n \in 0..125
  <2>1. n \in Nat
    BY <1>1
  <2>2. n <= 125
    BY <1>s, FramesAssumption
  <2> HIDE DEF n
  <2> QED BY <2>1, <2>2
<1>2. a \in Seq(Byte) /\ Len(a) = 1
  <2> DEFINE v == f.type + IF f.fin THEN WS_FIN_FLAG ELSE 0
  <2>1. v \in Byte
    <3>1. f.type \in 0..15
      BY <1>1
    <3> QED BY <3>1 DEF Byte, WS_FIN_FLAG
  <2> HIDE DEF v
  <2>2. <<v>> \in Seq(Byte) /\ Len(<<v>>) = 1
    BY <2>1
  <2> QED BY <2>2 DEF v
<1>3. /\ b \in Seq(Byte)
      /\ f.long => Len(b) = 3 /\ b[1] = 254 /\ 256 * b[2] + b[3] = n
      /\ ~f.long => Len(b) = 1 /\ b[1] = n + 128
  <2> DEFINE u == 126 + WS_MASKED_FLAG
             v == n \div 256
             w == n % 256
             x == n + WS_MASKED_FLAG
  <2>1. CASE f.long
    <3>1. u \in Byte /\ v \in Byte /\ w \in Byte /\ u = 254 /\ 256 * v + w = n
      <4>1. n \in 0..504
        BY <1>n
      <4> HIDE DEF n
      <4> QED BY <4>1 DEF Byte, WS_MASKED_FLAG
    <3>2. b = <<u, v, w>>
      BY <2>1
    <3> HIDE DEF b, u, v, w, n
    <3> QED BY <2>1, <3>1, <3>2
  <2>2. CASE ~f.long
    <3>1. x \in Byte /\ x = n + 128
      <4>1. n \in 0..125
        BY <1>s, <2>2
      <4> HIDE DEF n
      <4> QED BY <4>1 DEF Byte, WS_MASKED_FLAG
    <3>2. b = <<x>>
      BY <2>2
    <3> HIDE DEF b, x, n
    <3> QED BY <2>2, <3>1, <3>2
  <2> QED BY <1>1, <2>1, <2>2
<1>4. ASSUME NEW i \in 1..n
      PROVE  /\ f.payload[i] \in Byte /\ ((i - 1) % 4) + 1 \in 1..4
             /\ f.mask[((i - 1) % 4) + 1] \in Byte /\ d[i] \in Byte
             /\ Xor(f.mask[((i - 1) % 4) + 1], d[i]) = f.payload[i]
  <2> DEFINE k == ((i - 1) % 4) + 1
  <2>1. k \in 1..4 /\ f.payload[i] \in Byte /\ i \in DOMAIN f.payload
    BY <1>1
  <2>2. f.mask[k] \in Byte
    <3> HIDE DEF k
    <3> QED BY <1>1, <2>1
  <2>3. d[i] = Xor(f.payload[i], f.mask[k])
    BY <2>1
  <2> HIDE DEF k, d
  <2>4. d[i] \in Byte /\ Xor(f.mask[k], d[i]) = f.payload[i]
    BY <2>1, <2>2, <2>3, XorTwice
  <2> QED BY <2>1, <2>2, <2>4 DEF k
<1>5. d \in Seq(Byte) /\ Len(d) = n
  <2>1. DOMAIN f.payload = 1..n
    BY <1>1
  <2>2. \A i \in 1..n : Xor(f.payload[i], f.mask[((i - 1) % 4) + 1]) \in Byte
    <3> SUFFICES ASSUME NEW i \in 1..n
                 PROVE  Xor(f.payload[i], f.mask[((i - 1) % 4) + 1]) \in Byte
      OBVIOUS
    <3>1. d[i] \in Byte /\ d[i] = Xor(f.payload[i], f.mask[((i - 1) % 4) + 1])
      BY <1>4, <2>1
    <3> QED BY <3>1
  <2>3. d \in [1..n -> Byte]
    BY <2>1, <2>2
  <2> HIDE DEF d
  <2> QED BY <1>1, <2>3
<1>6. msg = a \o b \o f.mask \o d
  BY DEF ClientFrame
<1> HIDE DEF a, b, d, msg
<1>7. /\ msg \in Seq(Byte) /\ Len(msg) = 1 + Len(b) + 4 + n
      /\ \A i \in 1..Len(b) : msg[1 + i] = b[i]
      /\ \A i \in 1..4 : msg[1 + Len(b) + i] = f.mask[i]
      /\ \A i \in 1..n : msg[1 + Len(b) + 4 + i] = d[i]
  <2>1. /\ a \in Seq(Byte) /\ b \in Seq(Byte) /\ f.mask \in Seq(Byte) /\ d \in Seq(Byte)
    BY <1>1, <1>2, <1>3, <1>5
  <2>2. /\ msg \in Seq(Byte) /\ Len(msg) = Len(a) + Len(b) + Len(f.mask) + Len(d)
        /\ \A i \in 1..Len(b) : msg[Len(a) + i] = b[i]
        /\ \A i \in 1..Len(f.mask) : msg[Len(a) + Len(b) + i] = f.mask[i]
        /\ \A i \in 1..Len(d) : msg[Len(a) + Len(b) + Len(f.mask) + i] = d[i]
    <3> DEFINE c == f.mask
    <3>1. c \in Seq(Byte) /\ msg = a \o b \o c \o d
      BY <1>6, <2>1
    <3> HIDE DEF c
    <3>2. /\ msg \in Seq(Byte) /\ Len(msg) = Len(a) + Len(b) + Len(c) + Len(d)
          /\ \A i \in 1..Len(b) : msg[Len(a) + i] = b[i]
          /\ \A i \in 1..Len(c) : msg[Len(a) + Len(b) + i] = c[i]
          /\ \A i \in 1..Len(d) : msg[Len(a) + Len(b) + Len(c) + i] = d[i]
      BY <2>1, <3>1, FourParts
    <3> QED BY <3>2 DEF c
  <2>3. Len(a) = 1 /\ Len(f.mask) = 4 /\ Len(d) = n
    BY <1>1, <1>2, <1>5
  <2> HIDE DEF n
  <2> QED BY <2>2, <2>3
<1>8. /\ is_masked_msg(msg) /\ get_message_len(msg) = n /\ LengthEnd(msg) = at - 4
      /\ Len(b) = at - 5 /\ at \in {6, 8}
  <2>1. CASE f.long
    <3>1. msg[2] = 254 /\ 256 * msg[3] + msg[4] = n
      <4>1. /\ 1 \in 1..Len(b) /\ 2 \in 1..Len(b) /\ 3 \in 1..Len(b)
            /\ 1 + 1 = 2 /\ 1 + 2 = 3 /\ 1 + 3 = 4
        <5>1. Len(b) = 3
          BY <1>3, <2>1
        <5> QED BY <5>1
      <4>2. msg[1 + 1] = b[1] /\ msg[1 + 2] = b[2] /\ msg[1 + 3] = b[3]
        BY <1>7, <4>1
      <4>3. b[1] = 254 /\ 256 * b[2] + b[3] = n
        BY <1>3, <2>1
      <4> HIDE DEF n
      <4> QED BY <4>1, <4>2, <4>3
    <3>2. LenByte(msg) = 126 /\ is_masked_msg(msg)
      BY <3>1 DEF LenByte, is_masked_msg, WS_MASKED_FLAG
    <3>3. msg[3] \in Byte /\ msg[4] \in Byte
      <4>1. 3 \in 1..Len(msg) /\ 4 \in 1..Len(msg) /\ msg \in Seq(Byte)
        <5>1. Len(b) = 3
          BY <1>3, <2>1
        <5> HIDE DEF n
        <5> QED BY <1>n, <1>7, <5>1
      <4> QED BY <4>1
    <3>4. msg[3] * 256 + msg[4] = n
      <4> HIDE DEF n
      <4> QED BY <3>1, <3>3 DEF Byte
    <3> QED BY <1>3, <2>1, <3>2, <3>4 DEF get_message_len, LengthEnd
  <2>2. CASE ~f.long
    <3>1. msg[2] = n + 128
      <4>1. 1 \in 1..Len(b) /\ 1 + 1 = 2 /\ b[1] = n + 128
        <5>1. Len(b) = 1 /\ b[1] = n + 128
          BY <1>3, <2>2
        <5> HIDE DEF n
        <5> QED BY <5>1
      <4>2. msg[1 + 1] = b[1]
        BY <1>7, <4>1
      <4> HIDE DEF n
      <4> QED BY <4>1, <4>2
    <3>2. LenByte(msg) = n /\ is_masked_msg(msg) /\ n # 126 /\ n # 127
      <4>1. n \in 0..125
        BY <1>s, <2>2
      <4> HIDE DEF n
      <4> QED BY <3>1, <4>1 DEF LenByte, is_masked_msg, WS_MASKED_FLAG
    <3> QED BY <1>3, <2>2, <3>2 DEF get_message_len, LengthEnd
  <2> QED BY <1>1, <2>1, <2>2
<1> HIDE DEF at, n
<1>9. get_payload_ptr(msg) = at
  BY <1>8 DEF get_payload_ptr
<1> DEFINE z == Zeros(WS_RECV_BUFFER_SIZE - Len(msg))
           recv == msg \o z
           pld == SubSeq(recv, at + 1, at + n)
           mask == SubSeq(msg, at - 4 + 1, at - 4 + 4)
<1>10. /\ recv \in Seq(Byte) /\ Len(recv) >= at + n
       /\ \A i \in 1..Len(msg) : recv[i] = msg[i]
  <2>1. Len(msg) = at + n /\ Len(msg) <= 512
    BY <1>n, <1>7, <1>8
  <2>2. z \in Seq(Byte) /\ Len(z) \in Nat
    <3>1. 512 - Len(msg) \in Nat
      BY <1>7, <2>1
    <3> QED BY <3>1 DEF Zeros, Byte, WS_RECV_BUFFER_SIZE
  <2> HIDE DEF z
  <2> QED BY <1>7, <2>1, <2>2, TwoParts
<1>11. /\ DOMAIN pld = 1..n
       /\ \A i \in 1..n : pld[i] = d[i]
  <2>1. Len(msg) = at + n
    BY <1>1, <1>7, <1>8
  <2> HIDE DEF recv
  <2>2. /\ DOMAIN pld = 1..n
        /\ \A i \in 1..n : pld[i] = recv[at + i]
    BY <1>1, <1>8, <1>10
  <2>3. ASSUME NEW i \in 1..n PROVE recv[at + i] = d[i]
    <3>1. at + i \in 1..Len(msg) /\ 1 + Len(b) + 4 + i = at + i
      BY <1>1, <1>8, <2>1
    <3> QED BY <1>7, <1>10, <3>1
  <2> QED BY <2>2, <2>3
<1>12. \A k \in 1..4 : mask[k] = f.mask[k]
  <2>1. Len(msg) = at + n
    BY <1>1, <1>7, <1>8
  <2>2. \A k \in 1..4 : mask[k] = msg[at - 4 + k]
    BY <1>1, <1>7, <1>8, <2>1
  <2>3. ASSUME NEW k \in 1..4 PROVE msg[at - 4 + k] = f.mask[k]
    <3>1. 1 + Len(b) + k = at - 4 + k
      BY <1>8
    <3> QED BY <1>7, <3>1
  <2> QED BY <2>2, <2>3
<1>13. Payload(msg) = [i \in 1..n |-> Xor(mask[((i - 1) % 4) + 1], pld[i])]
  <2>1. get_mask(msg) = mask
    BY <1>8 DEF get_mask
  <2>2. Payload(msg) = unmask_message_payload(pld, mask)
    BY <1>8, <1>9, <2>1 DEF Payload
  <2> HIDE DEF pld, mask
  <2> QED BY <1>11, <2>2 DEF unmask_message_payload
<1> HIDE DEF pld, mask
<1>14. ASSUME NEW i \in 1..n PROVE Xor(mask[((i - 1) % 4) + 1], pld[i]) = f.payload[i]
  <2>1. mask[((i - 1) % 4) + 1] = f.mask[((i - 1) % 4) + 1]
    BY <1>4, <1>12
  <2> QED BY <1>4, <1>11, <2>1
<1>15. f.payload = [i \in 1..n |-> f.payload[i]]
  BY <1>1 DEF n
<1>16. Payload(msg) = f.payload
  BY <1>13, <1>14, <1>15
<1> QED BY <1>16 DEF msg

-----------------------------------------------------------------------------
(***************************************************************************)
(* Frames of the server.  A client that goes from frame to frame stays     *)
(* within any set of places that holds the first item and, with a whole    *)
(* frame, what is behind it.                                               *)
(***************************************************************************)

(* A set of naturals has a least one. *)
LEMMA Least ==
    ASSUME NEW S \in SUBSET Nat, S # {}
    PROVE  \E x \in S : \A y \in S : x <= y
<1>1. \E x \in S : \A y \in S : <<y, x>> \notin OpToRel(<, Nat)
  BY NatLessThanWellFounded, WFMin
<1>2. \A x, y \in S : y < x => <<y, x>> \in OpToRel(<, Nat)
  BY DEF OpToRel
<1>3. \E x \in S : \A y \in S : ~(y < x)
  BY <1>1, <1>2
<1> QED BY <1>3

(* The recursion of FrameStarts. *)
Walk(s, n, f) == [k \in 0..n |-> IF k = 0 THEN {1} ELSE Further(s, f[k - 1])]

LEMMA WalkExists ==
    ASSUME NEW s, NEW n \in Nat
    PROVE  \E f : f = Walk(s, n, f)
<1> DEFINE Bad == {r \in Nat : ~ \E f : f = Walk(s, r, f)}
<1>1. SUFFICES ASSUME Bad # {} PROVE FALSE
  OBVIOUS
<1>2. PICK m \in Bad : \A y \in Bad : m <= y
  <2>1. Bad \in SUBSET Nat
    OBVIOUS
  <2> HIDE DEF Bad
  <2> QED BY <1>1, <2>1, Least
<1>3. m # 0
  <2> SUFFICES ASSUME m = 0 PROVE FALSE
    OBVIOUS
  <2> DEFINE f == [k \in 0..0 |-> {1}]
  <2>1. f = Walk(s, 0, f)
    BY DEF Walk
  <2> HIDE DEF f
  <2> QED BY <2>1
<1>4. m - 1 \in Nat /\ m - 1 \notin Bad
  BY <1>2, <1>3
<1>5. PICK f : f = Walk(s, m - 1, f)
  BY <1>4
<1> DEFINE g == [k \in 0..m |-> IF k = 0 THEN {1} ELSE Further(s, f[k - 1])]
<1>6. ASSUME NEW k \in 0..m, k # 0 PROVE g[k - 1] = f[k - 1]
  <2>1. k - 1 \in 0..m - 1 /\ k - 1 \in 0..m
    BY <1>6
  <2>2. f[k - 1] = IF k - 1 = 0 THEN {1} ELSE Further(s, f[(k - 1) - 1])
    <3> DEFINE w == Walk(s, m - 1, f)
    <3>1. w[k - 1] = IF k - 1 = 0 THEN {1} ELSE Further(s, f[(k - 1) - 1])
      BY <2>1 DEF Walk
    <3> HIDE DEF w
    <3>2. f = w
      BY <1>5 DEF w
    <3> QED BY <3>1, <3>2
  <2> QED BY <2>1, <2>2
<1>7. g = Walk(s, m, g)
  <2> DEFINE w == Walk(s, m, g)
  <2>1. w = [k \in 0..m |-> IF k = 0 THEN {1} ELSE Further(s, g[k - 1])]
    BY DEF Walk
  <2>2. \A k \in 0..m : (IF k = 0 THEN {1} ELSE Further(s, f[k - 1]))
                          = (IF k = 0 THEN {1} ELSE Further(s, g[k - 1]))
    BY <1>6
  <2> HIDE DEF w
  <2>3. g = w
    BY <2>1, <2>2
  <2> QED BY <2>3 DEF w
<1> HIDE DEF g
<1> QED BY <1>7

Walked(s, n) == CHOOSE f : f = Walk(s, n, f)

LEMMA WalkedIs ==
    ASSUME NEW s, NEW n \in Nat, NEW f, f = Walked(s, n)
    PROVE  f[0] = {1} /\ \A k \in 1..n : f[k] = Further(s, f[k - 1])
<1>1. f = Walk(s, n, f)
  BY WalkExists DEF Walked
<1> DEFINE w == Walk(s, n, f)
<1>2. \A k \in 0..n : w[k] = IF k = 0 THEN {1} ELSE Further(s, f[k - 1])
  BY DEF Walk
<1> HIDE DEF w
<1>3. f = w
  BY <1>1 DEF w
<1>4. \A k \in 0..n : f[k] = IF k = 0 THEN {1} ELSE Further(s, f[k - 1])
  BY <1>2, <1>3
<1>5. 0 \in 0..n /\ \A k \in 1..n : k \in 0..n /\ k # 0
  OBVIOUS
<1> QED BY <1>4, <1>5

LEMMA StartsWithin ==
    ASSUME NEW s, Len(s) \in Nat, NEW S, 1 \in S,
           \A i \in S : IsWhole(s, i) => Behind(s, i) \in S
    PROVE  FrameStarts(s) \subseteq S
<1> DEFINE n == Len(s)
           f == Walked(s, n)
           Bad == {k \in 0..n : ~(f[k] \subseteq S)}
<1>1. FrameStarts(s) = f[n]
  BY DEF FrameStarts, Walked, Walk
<1> HIDE DEF f
<1>2. f[0] = {1} /\ \A k \in 1..n : f[k] = Further(s, f[k - 1])
  BY WalkedIs DEF f
<1>3. Bad = {}
  <2> SUFFICES ASSUME Bad # {} PROVE FALSE
    OBVIOUS
  <2>1. Bad \in SUBSET Nat
    OBVIOUS
  <2>2. PICK m \in Bad : \A y \in Bad : m <= y
    <3> HIDE DEF Bad
    <3> QED BY <2>1, Least
  <2>3. m # 0
    BY <1>2
  <2>4. m \in 1..n /\ m - 1 \in 0..n /\ m - 1 \notin Bad
    BY <2>2, <2>3
  <2>5. f[m - 1] \subseteq S
    BY <2>4
  <2>6. f[m] = Further(s, f[m - 1])
    BY <1>2, <2>4
  <2>7. Further(s, f[m - 1]) \subseteq S
    BY <2>5 DEF Further
  <2> QED BY <2>6, <2>7
<1>4. n \in 0..n /\ n \notin Bad
  BY <1>3
<1> QED BY <1>1, <1>4

(* Streams of items. *)
Streams == Seq(Seq(Nat))

(* A whole frame stays what it is when more is sent behind it. *)
LEMMA FrameStays ==
    ASSUME NEW s \in Streams, NEW t \in Streams, Len(s) <= Len(t),
           \A j \in 1..Len(s) : t[j] = s[j],
           NEW i \in 1..Len(s), IsWhole(s, i)
    PROVE  /\ IsWhole(t, i) /\ TypeAt(t, i) = TypeAt(s, i) /\ Behind(t, i) = Behind(s, i)
           /\ SizeAt(t, i) = SizeAt(s, i)
           /\ SizeAt(s, i) # 0 => t[TextAt(t, i)] = s[TextAt(s, i)]
<1>1. i + 1 \in 1..Len(s) /\ Len(s[i]) = 1 /\ Len(s[i + 1]) = 1
  BY DEF IsWhole, HeaderAt, IsByte
<1>2. t[i] = s[i] /\ t[i + 1] = s[i + 1]
  BY <1>1
<1>3. IsLong(t, i) = IsLong(s, i)
  BY <1>2 DEF IsLong
<1>4. ASSUME IsLong(s, i)
      PROVE  /\ i + 2 \in 1..Len(s) /\ i + 3 \in 1..Len(s)
             /\ Len(s[i + 2]) = 1 /\ Len(s[i + 3]) = 1
             /\ t[i + 2] = s[i + 2] /\ t[i + 3] = s[i + 3]
  <2>1. /\ i + 2 \in 1..Len(s) /\ i + 3 \in 1..Len(s)
        /\ Len(s[i + 2]) = 1 /\ Len(s[i + 3]) = 1
    BY <1>4 DEF IsWhole, HeaderAt, IsByte
  <2> QED BY <2>1
<1>5. SizeAt(t, i) = SizeAt(s, i)
  BY <1>2, <1>3, <1>4 DEF SizeAt
<1>6. TextAt(t, i) = TextAt(s, i) /\ TextAt(s, i) \in Nat /\ TextAt(s, i) >= 1
  BY <1>3 DEF TextAt
<1>7. TypeAt(t, i) = TypeAt(s, i)
  BY <1>2 DEF TypeAt
<1>8. Behind(t, i) = Behind(s, i)
  BY <1>5, <1>6 DEF Behind
<1>9. ASSUME SizeAt(s, i) # 0
      PROVE  /\ TextAt(s, i) \in 1..Len(s) /\ t[TextAt(t, i)] = s[TextAt(s, i)]
             /\ Len(s[TextAt(s, i)]) = 2 /\ s[TextAt(s, i)][2] = SizeAt(s, i)
  <2>1. /\ TextAt(s, i) \in 1..Len(s)
        /\ Len(s[TextAt(s, i)]) = 2 /\ s[TextAt(s, i)][2] = SizeAt(s, i)
    BY <1>6, <1>9 DEF IsWhole
  <2> QED BY <1>6, <2>1
<1>10. HeaderAt(t, i)
  <2>1. IsByte(t, i) /\ IsByte(t, i + 1)
    BY <1>1, <1>2 DEF IsByte
  <2>2. ASSUME IsLong(t, i) PROVE IsByte(t, i + 2) /\ IsByte(t, i + 3)
    <3>1. IsLong(s, i)
      BY <1>3, <2>2
    <3>2. /\ i + 2 \in 1..Len(s) /\ i + 3 \in 1..Len(s)
          /\ Len(t[i + 2]) = 1 /\ Len(t[i + 3]) = 1
      BY <1>4, <3>1
    <3>3. i + 2 <= Len(t) /\ i + 3 <= Len(t)
      BY <3>2
    <3> QED BY <3>2, <3>3 DEF IsByte
  <2> QED BY <2>1, <2>2 DEF HeaderAt
<1>11. IsWhole(t, i)
  <2>1. ASSUME SizeAt(t, i) # 0
        PROVE  /\ TextAt(t, i) <= Len(t) /\ Len(t[TextAt(t, i)]) = 2
               /\ t[TextAt(t, i)][2] = SizeAt(t, i)
    <3>1. SizeAt(s, i) # 0
      BY <1>5, <2>1
    <3>2. TextAt(t, i) \in 1..Len(s) /\ TextAt(t, i) <= Len(t)
      BY <1>6, <1>9, <3>1
    <3> QED BY <1>5, <1>9, <3>1, <3>2
  <2> QED BY <1>10, <2>1 DEF IsWhole
<1> QED BY <1>5, <1>7, <1>8, <1>9, <1>11

(* S are the places of the frames of s and its end: what is between them   *)
(* are whole frames, and the messages are numbered up to m, in order.      *)
Texts(s, S) == {i \in S \ {Len(s) + 1} : TypeAt(s, i) = WS_TYPE_TEXT}
Number(s, i) == s[TextAt(s, i)][1]

Parsed(s, S, m) ==
    /\ S \subseteq 1..Len(s) + 1 /\ 1 \in S /\ Len(s) + 1 \in S
    /\ \A i \in S \ {Len(s) + 1} :
          /\ IsWhole(s, i) /\ Behind(s, i) \in S
          /\ TypeAt(s, i) \in {WS_TYPE_TEXT, WS_TYPE_PONG, WS_TYPE_CLOSE}
    /\ \A i \in Texts(s, S) : SizeAt(s, i) # 0 /\ Number(s, i) \in 0..m
    /\ \A i, j \in Texts(s, S) : i < j => Number(s, i) < Number(s, j)

(* The client understands such a stream. *)
LEMMA ParsedDecodes ==
    ASSUME peer.stream \in Streams, NEW S, NEW m, Parsed(peer.stream, S, m)
    PROVE  StreamDecodes
<1> DEFINE s == peer.stream
<1>1. ASSUME NEW i \in S, IsWhole(s, i) PROVE Behind(s, i) \in S
  <2>1. i # Len(s) + 1
    BY <1>1 DEF IsWhole, HeaderAt, IsByte
  <2> QED BY <1>1, <2>1 DEF Parsed
<1>2. FrameStarts(s) \subseteq S
  <2>1. Len(s) \in Nat /\ 1 \in S
    BY DEF Parsed
  <2> HIDE DEF s
  <2> QED BY <1>1, <2>1, StartsWithin
<1>3. ASSUME NEW i \in FrameStarts(s) \ {Len(s) + 1}
      PROVE  IsWhole(s, i) /\ TypeAt(s, i) \in {WS_TYPE_TEXT, WS_TYPE_PONG, WS_TYPE_CLOSE}
  BY <1>2 DEF Parsed
<1>4. ASSUME NEW i \in FrameStarts(s) \ {Len(s) + 1}, NEW j \in FrameStarts(s) \ {Len(s) + 1},
             TypeAt(s, i) = WS_TYPE_TEXT, TypeAt(s, j) = WS_TYPE_TEXT, i < j
      PROVE  s[TextAt(s, i)][1] < s[TextAt(s, j)][1]
  <2>1. i \in Texts(s, S) /\ j \in Texts(s, S)
    BY <1>2, <1>4 DEF Texts
  <2>2. Number(s, i) < Number(s, j)
    BY <1>4, <2>1 DEF Parsed
  <2> QED BY <2>2 DEF Number
<1> HIDE DEF s
<1> QED BY <1>3, <1>4 DEF StreamDecodes, s

(* Another frame behind the ones there are, a message with a later number. *)
LEMMA FrameAdded ==
    ASSUME NEW s \in Streams, NEW t \in Streams, Len(s) < Len(t),
           \A j \in 1..Len(s) : t[j] = s[j],
           NEW S, NEW m \in Nat, Parsed(s, S, m), NEW k \in Nat, m <= k,
           IsWhole(t, Len(s) + 1), Behind(t, Len(s) + 1) = Len(t) + 1,
           TypeAt(t, Len(s) + 1) \in {WS_TYPE_TEXT, WS_TYPE_PONG, WS_TYPE_CLOSE},
           TypeAt(t, Len(s) + 1) = WS_TYPE_TEXT =>
               /\ SizeAt(t, Len(s) + 1) # 0 /\ Number(t, Len(s) + 1) \in 0..k
               /\ m < Number(t, Len(s) + 1)
    PROVE  Parsed(t, S \cup {Len(t) + 1}, k)
<1> DEFINE e == Len(s) + 1
           T == S \cup {Len(t) + 1}
<1>1. Len(s) \in Nat /\ Len(t) \in Nat /\ e \in 1..Len(t)
  OBVIOUS
<1>2. T \subseteq 1..Len(t) + 1 /\ 1 \in T /\ Len(t) + 1 \in T
  <2>1. S \subseteq 1..Len(s) + 1 /\ 1 \in S
    BY DEF Parsed
  <2>2. \A i \in 1..Len(s) + 1 : i \in 1..Len(t) + 1
    BY <1>1
  <2>3. Len(t) + 1 \in 1..Len(t) + 1
    BY <1>1
  <2> QED BY <2>1, <2>2, <2>3
<1>3. ASSUME NEW i \in T \ {Len(t) + 1}, i # e
      PROVE  i \in S \ {e} /\ i \in 1..Len(s) /\ i < e
  <2>1. i \in S /\ S \subseteq 1..Len(s) + 1
    BY <1>3 DEF Parsed
  <2>2. i \in 1..Len(s) + 1 /\ i # Len(s) + 1
    BY <1>3, <2>1
  <2>3. i \in 1..Len(s) /\ i < Len(s) + 1
    BY <1>1, <2>2
  <2> QED BY <1>3, <2>1, <2>3
<1>4. ASSUME NEW i \in S \ {e}, i \in 1..Len(s)
      PROVE  /\ IsWhole(t, i) /\ TypeAt(t, i) = TypeAt(s, i) /\ Behind(t, i) = Behind(s, i)
             /\ SizeAt(t, i) = SizeAt(s, i)
             /\ SizeAt(s, i) # 0 => Number(t, i) = Number(s, i)
             /\ Behind(s, i) \in S
             /\ TypeAt(s, i) \in {WS_TYPE_TEXT, WS_TYPE_PONG, WS_TYPE_CLOSE}
  <2>1. /\ IsWhole(s, i) /\ Behind(s, i) \in S
        /\ TypeAt(s, i) \in {WS_TYPE_TEXT, WS_TYPE_PONG, WS_TYPE_CLOSE}
    BY DEF Parsed
  <2>2. /\ IsWhole(t, i) /\ TypeAt(t, i) = TypeAt(s, i) /\ Behind(t, i) = Behind(s, i)
        /\ SizeAt(t, i) = SizeAt(s, i)
        /\ SizeAt(s, i) # 0 => t[TextAt(t, i)] = s[TextAt(s, i)]
    <3>1. Len(s) <= Len(t)
      BY <1>1
    <3> QED BY <1>4, <2>1, <3>1, FrameStays
  <2> QED BY <2>1, <2>2 DEF Number
<1>5. ASSUME NEW i \in T \ {Len(t) + 1}
      PROVE  /\ IsWhole(t, i) /\ Behind(t, i) \in T
             /\ TypeAt(t, i) \in {WS_TYPE_TEXT, WS_TYPE_PONG, WS_TYPE_CLOSE}
  <2>1. CASE i = e
    BY <2>1
  <2>2. CASE i # e
    <3>1. i \in S \ {e} /\ i \in 1..Len(s)
      BY <1>3, <2>2
    <3> QED BY <1>4, <3>1
  <2> QED BY <2>1, <2>2
<1>6. ASSUME NEW i \in Texts(t, T), i # e
      PROVE  /\ i < e /\ i \in Texts(s, S) /\ SizeAt(t, i) # 0 /\ Number(t, i) = Number(s, i)
             /\ Number(s, i) \in 0..m
  <2>1. i \in S \ {e} /\ i \in 1..Len(s) /\ i < e /\ TypeAt(t, i) = WS_TYPE_TEXT
    BY <1>3, <1>6 DEF Texts
  <2>2. i \in Texts(s, S)
    BY <1>4, <2>1 DEF Texts
  <2>3. SizeAt(s, i) # 0 /\ Number(s, i) \in 0..m
    BY <2>2 DEF Parsed
  <2> QED BY <1>4, <2>1, <2>2, <2>3
<1>7. ASSUME NEW i \in Texts(t, T), i = e
      PROVE  SizeAt(t, i) # 0 /\ Number(t, i) \in 0..k /\ m < Number(t, i)
  BY <1>7 DEF Texts
<1>8. ASSUME NEW i \in Texts(t, T) PROVE SizeAt(t, i) # 0 /\ Number(t, i) \in 0..k
  <2>1. CASE i = e
    BY <1>7, <2>1
  <2>2. CASE i # e
    <3>1. SizeAt(t, i) # 0 /\ Number(t, i) \in 0..m
      BY <1>6, <2>2
    <3> QED BY <3>1
  <2> QED BY <2>1, <2>2
<1>9. ASSUME NEW i \in Texts(t, T), NEW j \in Texts(t, T), i < j
      PROVE  Number(t, i) < Number(t, j)
  <2>0. i \in Nat /\ j \in Nat
    <3>1. i \in T /\ j \in T
      BY DEF Texts
    <3> HIDE DEF T
    <3> QED BY <1>1, <1>2, <3>1
  <2>1. i # e
    <3> SUFFICES ASSUME i = e PROVE FALSE
      OBVIOUS
    <3>1. CASE j = e
      BY <1>1, <1>9, <3>1
    <3>2. CASE j # e
      <4>1. j < e
        BY <1>6, <3>2
      <4> HIDE DEF e
      <4> QED BY <1>1, <1>9, <2>0, <4>1
    <3> QED BY <3>1, <3>2
  <2>2. i \in Texts(s, S) /\ Number(t, i) = Number(s, i) /\ Number(s, i) \in 0..m
    BY <1>6, <2>1
  <2>3. CASE j = e
    <3>1. Number(t, j) \in 0..k /\ m < Number(t, j)
      BY <1>7, <2>3
    <3> QED BY <2>2, <3>1
  <2>4. CASE j # e
    <3>1. j \in Texts(s, S) /\ Number(t, j) = Number(s, j)
      BY <1>6, <2>4
    <3>2. Number(s, i) < Number(s, j)
      BY <1>9, <2>2, <3>1 DEF Parsed
    <3> QED BY <2>2, <3>1, <3>2
  <2> QED BY <2>3, <2>4
<1> HIDE DEF T
<1>10. Parsed(t, T, k)
  BY <1>2, <1>5, <1>8, <1>9 DEF Parsed
<1> QED BY <1>10 DEF T

(* A frame without a text (PONG, CLOSE) at the end of a stream. *)
LEMMA EmptyFrame ==
    ASSUME NEW t, NEW e \in Nat, NEW a \in Nat, Len(t) = e + 1,
           Len(t[e]) = 1, t[e][1] = a, Len(t[e + 1]) = 1, t[e + 1][1] = 0
    PROVE  IsWhole(t, e) /\ Behind(t, e) = Len(t) + 1 /\ TypeAt(t, e) = a % 16
<1>1. ~IsLong(t, e)
  BY DEF IsLong
<1>2. SizeAt(t, e) = 0 /\ TextAt(t, e) = e + 2
  BY <1>1 DEF SizeAt, TextAt
<1>3. IsByte(t, e) /\ IsByte(t, e + 1)
  BY DEF IsByte
<1>4. IsWhole(t, e)
  BY <1>1, <1>2, <1>3 DEF IsWhole, HeaderAt
<1>5. Behind(t, e) = Len(t) + 1
  BY <1>2 DEF Behind
<1> QED BY <1>4, <1>5 DEF TypeAt

(* A message with its size in one byte. *)
ShortAt(t, e, n, b) ==
    /\ Len(t) = e + 2 /\ Len(t[e]) = 1 /\ t[e][1] = 129 /\ Len(t[e + 1]) = 1 /\ t[e + 1][1] = b
    /\ Len(t[e + 2]) = 2 /\ t[e + 2][1] = n /\ t[e + 2][2] = b

LEMMA ShortFrame ==
    ASSUME NEW t, NEW e \in Nat, NEW n \in Nat, NEW b \in 1..125, ShortAt(t, e, n, b)
    PROVE  /\ IsWhole(t, e) /\ Behind(t, e) = Len(t) + 1 /\ TypeAt(t, e) = WS_TYPE_TEXT
           /\ SizeAt(t, e) # 0 /\ Number(t, e) = n
<1> USE DEF ShortAt
<1>1. ~IsLong(t, e)
  <2>1. b % 128 = b /\ b # 126
    OBVIOUS
  <2> QED BY <2>1 DEF IsLong
<1>2. SizeAt(t, e) = b /\ TextAt(t, e) = e + 2
  BY <1>1 DEF SizeAt, TextAt
<1>t. e + 2 <= Len(t)
  OBVIOUS
<1>3. IsByte(t, e) /\ IsByte(t, e + 1)
  BY DEF IsByte
<1>4. IsWhole(t, e)
  BY <1>1, <1>2, <1>t, <1>3 DEF IsWhole, HeaderAt
<1>5. Behind(t, e) = Len(t) + 1
  BY <1>2 DEF Behind
<1>6. Number(t, e) = n
  BY <1>2 DEF Number
<1> QED BY <1>2, <1>4, <1>5, <1>6 DEF TypeAt, WS_TYPE_TEXT

(* A message with its size in two bytes behind 126. *)
LongAt(t, e, n, h, l, b) ==
    /\ Len(t) = e + 4 /\ Len(t[e]) = 1 /\ t[e][1] = 129 /\ Len(t[e + 1]) = 1 /\ t[e + 1][1] = 126
    /\ Len(t[e + 2]) = 1 /\ t[e + 2][1] = h /\ Len(t[e + 3]) = 1 /\ t[e + 3][1] = l
    /\ Len(t[e + 4]) = 2 /\ t[e + 4][1] = n /\ t[e + 4][2] = b

LEMMA LongFrame ==
    ASSUME NEW t, NEW e \in Nat, NEW n \in Nat, NEW h \in Nat, NEW l \in Nat, NEW b \in Nat \ {0},
           b = 256 * h + l, LongAt(t, e, n, h, l, b)
    PROVE  /\ IsWhole(t, e) /\ Behind(t, e) = Len(t) + 1 /\ TypeAt(t, e) = WS_TYPE_TEXT
           /\ SizeAt(t, e) # 0 /\ Number(t, e) = n
<1> USE DEF LongAt
<1>1. IsLong(t, e)
  BY DEF IsLong
<1>2. SizeAt(t, e) = b /\ TextAt(t, e) = e + 4
  BY <1>1 DEF SizeAt, TextAt
<1>t. e + 4 <= Len(t)
  OBVIOUS
<1>3. IsByte(t, e) /\ IsByte(t, e + 1) /\ IsByte(t, e + 2) /\ IsByte(t, e + 3)
  BY DEF IsByte
<1>4. IsWhole(t, e)
  BY <1>1, <1>2, <1>t, <1>3 DEF IsWhole, HeaderAt
<1>5. Behind(t, e) = Len(t) + 1
  BY <1>2 DEF Behind
<1>6. Number(t, e) = n
  BY <1>2 DEF Number
<1> QED BY <1>2, <1>4, <1>5, <1>6 DEF TypeAt, WS_TYPE_TEXT

(* The items of bytes. *)
LEMMA WireItems ==
    ASSUME NEW bytes \in Seq(Nat), NEW w, w = Wire(bytes)
    PROVE  /\ w \in Streams /\ Len(w) = Len(bytes)
           /\ \A i \in 1..Len(bytes) : w[i] = <<bytes[i]>>
<1> DEFINE n == Len(bytes)
<1>1. DOMAIN bytes = 1..n /\ n \in Nat /\ \A i \in 1..n : bytes[i] \in Nat
  OBVIOUS
<1>2. w = [i \in 1..n |-> <<bytes[i]>>]
  BY <1>1 DEF Wire
<1>3. \A i \in 1..n : <<bytes[i]>> \in Seq(Nat)
  BY <1>1
<1>4. w \in [1..n -> Seq(Nat)]
  BY <1>2, <1>3
<1> HIDE DEF n
<1>5. w \in Streams /\ Len(w) = n
  BY <1>1, <1>4 DEF Streams
<1> QED BY <1>2, <1>5 DEF n

(* PONG or CLOSE sent. *)
LEMMA ControlSent ==
    ASSUME NEW s \in Streams, NEW S, NEW m \in Nat, Parsed(s, S, m),
           NEW u, u = pong_frame \/ u = close_frame
    PROVE  s \o u \in Streams /\ \E T : Parsed(s \o u, T, m)
<1> DEFINE t == s \o u
           e == Len(s) + 1
<1>1. PICK a \in {136, 138} : u = Wire(<<a, 0>>)
  BY DEF pong_frame, close_frame, WS_FIN_FLAG, WS_TYPE_PONG, WS_TYPE_CLOSE
<1>2. u \in Streams /\ Len(u) = 2 /\ u[1] = <<a>> /\ u[2] = <<0>>
  <2> DEFINE b == <<a, 0>>
  <2>1. b \in Seq(Nat) /\ Len(b) = 2 /\ b[1] = a /\ b[2] = 0
    OBVIOUS
  <2> HIDE DEF b
  <2>2. /\ u \in Streams /\ Len(u) = Len(b)
        /\ \A i \in 1..Len(b) : u[i] = <<b[i]>>
    BY <1>1, <2>1, WireItems DEF b
  <2>3. 1 \in 1..Len(b) /\ 2 \in 1..Len(b)
    BY <2>1
  <2> QED BY <2>1, <2>2, <2>3
<1>3. /\ t \in Streams /\ Len(t) = Len(s) + Len(u)
      /\ \A i \in 1..Len(s) : t[i] = s[i]
      /\ \A i \in 1..Len(u) : t[Len(s) + i] = u[i]
  <2> DEFINE Q == Seq(Nat)
  <2>1. s \in Seq(Q) /\ u \in Seq(Q)
    BY <1>2 DEF Streams
  <2> HIDE DEF Q
  <2>2. /\ t \in Seq(Q) /\ Len(t) = Len(s) + Len(u)
        /\ \A i \in 1..Len(s) : t[i] = s[i]
        /\ \A i \in 1..Len(u) : t[Len(s) + i] = u[i]
    BY <2>1, TwoParts
  <2> QED BY <2>2 DEF Q, Streams
<1> HIDE DEF t
<1>4. Len(s) \in Nat /\ e \in Nat /\ Len(t) = e + 1 /\ Len(s) < Len(t)
  BY <1>2, <1>3
<1>5. Len(t[e]) = 1 /\ t[e][1] = a /\ Len(t[e + 1]) = 1 /\ t[e + 1][1] = 0
  <2>1. 1 \in 1..Len(u) /\ 2 \in 1..Len(u) /\ Len(s) + 2 = e + 1
    BY <1>2, <1>4
  <2>2. t[Len(s) + 1] = u[1] /\ t[Len(s) + 2] = u[2]
    BY <1>3, <2>1
  <2>3. t[e] = <<a>> /\ t[e + 1] = <<0>>
    BY <1>2, <2>1, <2>2
  <2> HIDE DEF e
  <2> QED BY <2>3
<1>6. IsWhole(t, e) /\ Behind(t, e) = Len(t) + 1 /\ TypeAt(t, e) = a % 16
  <2>1. a \in Nat
    OBVIOUS
  <2>2. e \in Nat /\ Len(t) = e + 1
    BY <1>4
  <2> HIDE DEF e
  <2> QED BY <1>5, <2>1, <2>2, EmptyFrame
<1>7. TypeAt(t, e) \in {WS_TYPE_PONG, WS_TYPE_CLOSE} /\ TypeAt(t, e) # WS_TYPE_TEXT
  <2>1. a % 16 \in {8, 10}
    OBVIOUS
  <2> QED BY <1>6, <2>1 DEF WS_TYPE_TEXT, WS_TYPE_PONG, WS_TYPE_CLOSE
<1>8. Parsed(t, S \cup {Len(t) + 1}, m)
  <2>1. TypeAt(t, e) \in {WS_TYPE_TEXT, WS_TYPE_PONG, WS_TYPE_CLOSE}
    BY <1>7
  <2>2. t \in Streams /\ Len(s) < Len(t) /\ \A i \in 1..Len(s) : t[i] = s[i]
    BY <1>3, <1>4
  <2>3. m <= m
    OBVIOUS
  <2> QED BY <1>6, <1>7, <2>1, <2>2, <2>3, FrameAdded, Zenon DEF e
<1>9. t \in Streams /\ \E T : Parsed(t, T, m)
  BY <1>3, <1>8
<1> QED BY <1>9 DEF t

LEMMA PartsOfBytes ==
    ASSUME NEW a \in Seq(Nat), NEW b \in Seq(Nat), NEW s, s = a \o b
    PROVE  /\ s \in Seq(Nat) /\ Len(s) = Len(a) + Len(b)
           /\ \A i \in 1..Len(a) : s[i] = a[i]
           /\ \A i \in 1..Len(b) : s[Len(a) + i] = b[i]
<1> DEFINE Q == Nat
<1>1. a \in Seq(Q) /\ b \in Seq(Q)
  OBVIOUS
<1> HIDE DEF Q
<1>2. /\ s \in Seq(Q) /\ Len(s) = Len(a) + Len(b)
      /\ \A i \in 1..Len(a) : s[i] = a[i]
      /\ \A i \in 1..Len(b) : s[Len(a) + i] = b[i]
  BY <1>1, TwoParts
<1> QED BY <1>2 DEF Q

Joined(s, a, b) ==
    /\ s \in Streams /\ Len(s) = Len(a) + Len(b)
    /\ \A i \in 1..Len(a) : s[i] = a[i]
    /\ \A i \in 1..Len(b) : s[Len(a) + i] = b[i]

LEMMA PartsOfItems ==
    ASSUME NEW a \in Streams, NEW b \in Streams
    PROVE  Joined(a \o b, a, b)
<1> DEFINE s == a \o b
           Q == Seq(Nat)
<1>1. a \in Seq(Q) /\ b \in Seq(Q)
  BY DEF Streams
<1> HIDE DEF Q
<1>2. /\ s \in Seq(Q) /\ Len(s) = Len(a) + Len(b)
      /\ \A i \in 1..Len(a) : s[i] = a[i]
      /\ \A i \in 1..Len(b) : s[Len(a) + i] = b[i]
  BY <1>1, TwoParts
<1> HIDE DEF s
<1>3. Joined(s, a, b)
  BY <1>2 DEF Q, Streams, Joined
<1> QED BY <1>3 DEF s

(* The bytes of send_message before the text. *)
FrameBytes(size) == <<WS_TYPE_TEXT + WS_FIN_FLAG>> \o set_size_to_frame(size)

HasSize(b, size) ==
    /\ b \in Seq(Nat) /\ b[1] = 129
    /\ size < 126 => Len(b) = 2 /\ b[2] = size
    /\ size >= 126 => /\ Len(b) = 4 /\ b[2] = 126 /\ b[3] \in Nat /\ b[4] \in Nat
                      /\ 256 * b[3] + b[4] = size

LEMMA SizeBytes ==
    ASSUME NEW size \in 1..502
    PROVE  HasSize(FrameBytes(size), size)
<1> DEFINE b == FrameBytes(size)
           a == <<WS_TYPE_TEXT + WS_FIN_FLAG>>
           c == set_size_to_frame(size)
<1>1. a \in Seq(Nat) /\ Len(a) = 1 /\ a[1] = 129
  BY DEF WS_TYPE_TEXT, WS_FIN_FLAG
<1>2. ASSUME size < 126 PROVE c = <<size>>
  BY <1>2 DEF set_size_to_frame
<1>3. ASSUME size >= 126 PROVE c = <<126, (size \div 256) % 256, size % 256>>
  BY <1>3 DEF set_size_to_frame
<1>4. b = a \o c
  BY DEF FrameBytes
<1> SUFFICES HasSize(b, size)
  OBVIOUS
<1> HIDE DEF a, b, c
<1>5. CASE size < 126
  <2>0. c = <<size>> /\ size \in Nat
    BY <1>2, <1>5
  <2>1. c \in Seq(Nat) /\ Len(c) = 1 /\ c[1] = size
    BY <2>0
  <2>2. /\ b \in Seq(Nat) /\ Len(b) = Len(a) + Len(c)
        /\ \A i \in 1..Len(a) : b[i] = a[i]
        /\ \A i \in 1..Len(c) : b[Len(a) + i] = c[i]
    <3>1. a \in Seq(Nat) /\ c \in Seq(Nat)
      BY <1>1, <2>1
    <3> DEFINE w == a \o c
    <3>2. /\ w \in Seq(Nat) /\ Len(w) = Len(a) + Len(c)
          /\ \A i \in 1..Len(a) : w[i] = a[i]
          /\ \A i \in 1..Len(c) : w[Len(a) + i] = c[i]
      BY <3>1, PartsOfBytes
    <3> QED BY <1>4, <3>2, Zenon
  <2>3. Len(b) = 2 /\ b[1] = a[1] /\ b[2] = c[1]
    BY <1>1, <2>1, <2>2
  <2>4. b[1] = 129 /\ b[2] = size
    BY <1>1, <2>1, <2>3
  <2>5. ~(size >= 126)
    BY <1>5
  <2>6. b \in Seq(Nat) /\ Len(b) = 2
    BY <2>2, <2>3
  <2> QED BY <2>4, <2>5, <2>6 DEF HasSize
<1>6. CASE size >= 126
  <2> DEFINE h == (size \div 256) % 256
             l == size % 256
  <2>1. h \in Nat /\ l \in Nat /\ 256 * h + l = size
    OBVIOUS
  <2>2. c = <<126, h, l>>
    BY <1>3, <1>6
  <2> HIDE DEF h, l
  <2>3. c \in Seq(Nat) /\ Len(c) = 3 /\ c[1] = 126 /\ c[2] = h /\ c[3] = l
    BY <2>1, <2>2
  <2>4. /\ b \in Seq(Nat) /\ Len(b) = Len(a) + Len(c)
        /\ \A i \in 1..Len(a) : b[i] = a[i]
        /\ \A i \in 1..Len(c) : b[Len(a) + i] = c[i]
    <3>1. a \in Seq(Nat) /\ c \in Seq(Nat)
      BY <1>1, <2>3
    <3> DEFINE w == a \o c
    <3>2. /\ w \in Seq(Nat) /\ Len(w) = Len(a) + Len(c)
          /\ \A i \in 1..Len(a) : w[i] = a[i]
          /\ \A i \in 1..Len(c) : w[Len(a) + i] = c[i]
      BY <3>1, PartsOfBytes
    <3> QED BY <1>4, <3>2, Zenon
  <2>5. Len(b) = 4 /\ b[1] = a[1] /\ b[2] = c[1] /\ b[3] = c[2] /\ b[4] = c[3]
    <3>1. 1 \in 1..Len(a) /\ 1 \in 1..Len(c) /\ 2 \in 1..Len(c) /\ 3 \in 1..Len(c)
      BY <1>1, <2>3
    <3>2. b[Len(a) + 1] = c[1] /\ b[Len(a) + 2] = c[2] /\ b[Len(a) + 3] = c[3] /\ b[1] = a[1]
      BY <2>4, <3>1
    <3> QED BY <1>1, <2>3, <2>4, <3>2
  <2>6. b[1] = 129 /\ b[2] = 126 /\ b[3] = h /\ b[4] = l
    BY <1>1, <2>3, <2>5
  <2>7. b \in Seq(Nat) /\ Len(b) = 4
    BY <2>4, <2>5
  <2>8. 256 * b[3] + b[4] = size /\ b[3] \in Nat /\ b[4] \in Nat
    BY <2>1, <2>6
  <2>9. ~(size < 126)
    BY <1>6
  <2> QED BY <2>6, <2>7, <2>8, <2>9 DEF HasSize
<1> QED BY <1>5, <1>6

(* The frame u of message n: the bytes w, and the text. *)
IsFrameOf(u, w, n, size) ==
    /\ u \in Streams /\ Len(u) = Len(w) + 1 /\ u[Len(w) + 1] = <<n, size>>
    /\ Len(w) \in {2, 4}
    /\ \A i \in 1..Len(w) : u[i] = w[i] /\ Len(w[i]) = 1
    /\ w[1][1] = 129
    /\ size < 126 => Len(w) = 2 /\ w[2][1] = size
    /\ size >= 126 => /\ Len(w) = 4 /\ w[2][1] = 126 /\ w[3][1] \in Nat
                      /\ w[4][1] \in Nat /\ 256 * w[3][1] + w[4][1] = size

LEMMA MessageItems ==
    ASSUME NEW n \in Nat, NEW size \in 1..502, NEW u, u = MessageFrame(<<n, size>>)
    PROVE  \E w \in Streams : IsFrameOf(u, w, n, size)
<1> DEFINE b == FrameBytes(size)
           w == Wire(b)
           x == <<n, size>>
           y == <<x>>
<1>1. HasSize(b, size)
  BY SizeBytes, Zenon
<1>2. u = w \o y
  <2>1. x[2] = size
    OBVIOUS
  <2> QED BY <2>1 DEF MessageFrame, FrameBytes
<1>3. x \in Seq(Nat) /\ y \in Streams /\ Len(y) = 1 /\ y[1] = x
  <2>1. x \in Seq(Nat)
    OBVIOUS
  <2> HIDE DEF x
  <2> QED BY <2>1 DEF Streams
<1> HIDE DEF b, x, y
<1>4. /\ w \in Streams /\ Len(w) = Len(b)
      /\ \A i \in 1..Len(b) : w[i] = <<b[i]>>
  <2>1. b \in Seq(Nat)
    BY <1>1 DEF HasSize
  <2> QED BY <2>1, WireItems
<1> HIDE DEF w
<1>5. /\ u \in Streams /\ Len(u) = Len(w) + Len(y)
      /\ \A i \in 1..Len(w) : u[i] = w[i]
      /\ \A i \in 1..Len(y) : u[Len(w) + i] = y[i]
  <2> DEFINE q == w \o y
  <2>1. w \in Streams /\ y \in Streams
    BY <1>3, <1>4
  <2>2. Joined(q, w, y)
    BY <2>1, PartsOfItems, Zenon
  <2> QED BY <1>2, <2>2, Zenon DEF Joined
<1>6. Len(u) = Len(w) + 1 /\ u[Len(w) + 1] = x
  <2>1. 1 \in 1..Len(y)
    BY <1>3
  <2>2. u[Len(w) + 1] = y[1]
    BY <1>5, <2>1
  <2>3. Len(u) = Len(w) + 1
    BY <1>3, <1>5
  <2> QED BY <1>3, <2>2, <2>3
<1>7. ASSUME NEW i \in 1..Len(w) PROVE u[i] = w[i] /\ Len(w[i]) = 1 /\ w[i][1] = b[i]
  <2>1. w[i] = <<b[i]>>
    BY <1>4
  <2>2. Len(<<b[i]>>) = 1 /\ <<b[i]>>[1] = b[i]
    OBVIOUS
  <2>3. u[i] = w[i]
    BY <1>5
  <2> QED BY <2>1, <2>2, <2>3
<1>8. ASSUME size < 126 PROVE Len(w) = 2 /\ w[2][1] = size /\ w[1][1] = 129
  <2>1. Len(b) = 2 /\ b[2] = size /\ b[1] = 129
    BY <1>1, <1>8 DEF HasSize
  <2>2. Len(w) = 2
    BY <1>4, <2>1
  <2>3. w[1][1] = b[1] /\ w[2][1] = b[2]
    BY <1>7, <2>2
  <2> QED BY <2>1, <2>2, <2>3
<1>9. ASSUME size >= 126
      PROVE  /\ Len(w) = 4 /\ w[1][1] = 129 /\ w[2][1] = 126 /\ w[3][1] \in Nat
             /\ w[4][1] \in Nat /\ 256 * w[3][1] + w[4][1] = size
  <2>1. Len(b) = 4 /\ b[2] = 126 /\ b[3] \in Nat /\ b[4] \in Nat /\ 256 * b[3] + b[4] = size
    BY <1>1, <1>9 DEF HasSize
  <2>2. Len(w) = 4
    BY <1>4, <2>1
  <2>3. 1 \in 1..Len(w) /\ 2 \in 1..Len(w) /\ 3 \in 1..Len(w) /\ 4 \in 1..Len(w)
    BY <2>2
  <2>4. w[1][1] = b[1] /\ w[2][1] = b[2] /\ w[3][1] = b[3] /\ w[4][1] = b[4]
    BY <1>7, <2>3
  <2>5. b[1] = 129
    BY <1>1 DEF HasSize
  <2> QED BY <2>1, <2>2, <2>4, <2>5
<1>10. w[1][1] = 129 /\ Len(w) \in {2, 4}
  BY <1>8, <1>9
<1>11. w \in Streams /\ u \in Streams /\ u[Len(w) + 1] = <<n, size>>
  BY <1>4, <1>5, <1>6 DEF x
<1>12. Len(u) = Len(w) + 1
  BY <1>6
<1>13. \A i \in 1..Len(w) : u[i] = w[i] /\ Len(w[i]) = 1
  BY <1>7
<1>14. size < 126 => Len(w) = 2 /\ w[2][1] = size
  BY <1>8
<1>15. size >= 126 => /\ Len(w) = 4 /\ w[2][1] = 126 /\ w[3][1] \in Nat
                      /\ w[4][1] \in Nat /\ 256 * w[3][1] + w[4][1] = size
  BY <1>9
<1>16. IsFrameOf(u, w, n, size)
  BY <1>10, <1>11, <1>12, <1>13, <1>14, <1>15, Zenon DEF IsFrameOf
<1> QED BY <1>11, <1>16

(* Such a frame sent whole. *)
LEMMA FrameSent ==
    ASSUME NEW s \in Streams, NEW S, NEW m \in Nat, Parsed(s, S, m),
           NEW n \in Nat, m < n, NEW size \in 1..502,
           NEW u, NEW w \in Streams, IsFrameOf(u, w, n, size)
    PROVE  s \o u \in Streams /\ \E T : Parsed(s \o u, T, n)
<1> DEFINE t == s \o u
           e == Len(s) + 1
<1>1. IsFrameOf(u, w, n, size)
  OBVIOUS
<1>2. /\ t \in Streams /\ Len(t) = Len(s) + Len(u)
      /\ \A i \in 1..Len(s) : t[i] = s[i]
      /\ \A i \in 1..Len(u) : t[Len(s) + i] = u[i]
  <2>1. u \in Streams
    BY <1>1 DEF IsFrameOf
  <2>2. Joined(t, s, u)
    BY <2>1, PartsOfItems, Zenon
  <2> HIDE DEF t
  <2> QED BY <2>2 DEF Joined
<1> HIDE DEF t
<1>3. /\ Len(s) \in Nat /\ Len(w) \in {2, 4} /\ Len(u) = Len(w) + 1 /\ e \in Nat
      /\ Len(t) = e + Len(w) /\ Len(s) < Len(t)
  <2>1. Len(w) \in {2, 4} /\ Len(u) = Len(w) + 1
    BY <1>1 DEF IsFrameOf
  <2>2. Len(t) = Len(s) + Len(u)
    BY <1>2
  <2>3. Len(s) \in Nat
    OBVIOUS
  <2> QED BY <2>1, <2>2, <2>3
<1>4. ASSUME NEW i \in 0..3, i < Len(w) PROVE Len(t[e + i]) = 1 /\ t[e + i] = w[i + 1]
  <2>1. i + 1 \in 1..Len(w) /\ i + 1 \in 1..Len(u) /\ Len(s) + (i + 1) = e + i
    BY <1>3, <1>4
  <2>2. t[Len(s) + (i + 1)] = u[i + 1]
    BY <1>2, <2>1
  <2>3. u[i + 1] = w[i + 1] /\ Len(w[i + 1]) = 1
    BY <1>1, <2>1 DEF IsFrameOf
  <2> QED BY <2>1, <2>2, <2>3
<1>5. t[e + Len(w)] = <<n, size>>
  <2>1. Len(w) + 1 \in 1..Len(u) /\ Len(s) + (Len(w) + 1) = e + Len(w)
    BY <1>3
  <2>2. t[Len(s) + (Len(w) + 1)] = u[Len(w) + 1]
    BY <1>2, <2>1
  <2>3. u[Len(w) + 1] = <<n, size>>
    BY <1>1 DEF IsFrameOf
  <2> QED BY <2>1, <2>2, <2>3
<1>6. Len(<<n, size>>) = 2 /\ <<n, size>>[1] = n /\ <<n, size>>[2] = size
  OBVIOUS
<1>7. w[1][1] = 129
  BY <1>1 DEF IsFrameOf
<1>8. Len(t[e]) = 1 /\ t[e] = w[1] /\ Len(t[e + 1]) = 1 /\ t[e + 1] = w[2]
  <2>1. e + 0 = e /\ 0 + 1 = 1 /\ 1 + 1 = 2 /\ 0 < Len(w) /\ 1 < Len(w)
    <3>1. e \in Nat /\ Len(w) \in {2, 4}
      BY <1>3
    <3>2. 0 < Len(w) /\ 1 < Len(w)
      <4>1. Len(w) = 2 \/ Len(w) = 4
        BY <3>1
      <4>2. \A l : l = 2 \/ l = 4 => 0 < l /\ 1 < l
        OBVIOUS
      <4> QED BY <4>1, <4>2
    <3>3. e + 0 = e
      BY <3>1
    <3>4. 0 + 1 = 1 /\ 1 + 1 = 2
      OBVIOUS
    <3> QED BY <3>2, <3>3, <3>4
  <2>2. /\ Len(t[e + 0]) = 1 /\ t[e + 0] = w[0 + 1]
        /\ Len(t[e + 1]) = 1 /\ t[e + 1] = w[1 + 1]
    BY <1>4, <2>1
  <2> HIDE DEF e
  <2> QED BY <2>1, <2>2
<1>9. /\ IsWhole(t, e) /\ Behind(t, e) = Len(t) + 1 /\ TypeAt(t, e) = WS_TYPE_TEXT
      /\ SizeAt(t, e) # 0 /\ Number(t, e) = n
  <2>1. CASE size < 126
    <3>1. Len(w) = 2 /\ w[2][1] = size
      BY <1>1, <2>1 DEF IsFrameOf
    <3>2. size \in 1..125 /\ Len(t) = e + 2 /\ e \in Nat
      <4>1. e \in Nat /\ Len(t) = e + Len(w)
        BY <1>3
      <4> HIDE DEF e
      <4>2. Len(t) = e + 2
        BY <3>1, <4>1
      <4>3. size \in 1..125
        BY <2>1
      <4> QED BY <4>1, <4>2, <4>3
    <3>3. t[e + 2] = <<n, size>>
      BY <1>5, <3>1
    <3>4. Len(t[e + 2]) = 2 /\ t[e + 2][1] = n /\ t[e + 2][2] = size
      BY <1>6, <3>3
    <3>5. Len(t[e]) = 1 /\ t[e][1] = 129 /\ Len(t[e + 1]) = 1 /\ t[e + 1][1] = size
      BY <1>7, <1>8, <3>1
    <3> HIDE DEF e
    <3>6. ShortAt(t, e, n, size)
      BY <3>2, <3>4, <3>5, Zenon DEF ShortAt
    <3> QED BY <3>2, <3>6, ShortFrame, Zenon
  <2>2. CASE size >= 126
    <3> DEFINE h == w[3][1]
               l == w[4][1]
    <3>1. Len(w) = 4 /\ w[2][1] = 126 /\ h \in Nat /\ l \in Nat /\ size = 256 * h + l
      BY <1>1, <2>2 DEF IsFrameOf
    <3>2. size \in Nat \ {0} /\ Len(t) = e + 4 /\ e \in Nat
      <4>1. e \in Nat /\ Len(t) = e + Len(w)
        BY <1>3
      <4> HIDE DEF e
      <4>2. Len(t) = e + 4
        BY <3>1, <4>1
      <4> QED BY <4>1, <4>2
    <3>3. t[e + 4] = <<n, size>>
      BY <1>5, <3>1
    <3>4. Len(t[e + 4]) = 2 /\ t[e + 4][1] = n /\ t[e + 4][2] = size
      BY <1>6, <3>3
    <3>5. Len(t[e]) = 1 /\ t[e][1] = 129 /\ Len(t[e + 1]) = 1 /\ t[e + 1][1] = 126
      BY <1>7, <1>8, <3>1
    <3>6. Len(t[e + 2]) = 1 /\ t[e + 2][1] = h /\ Len(t[e + 3]) = 1 /\ t[e + 3][1] = l
      <4>1. 2 < Len(w) /\ 3 < Len(w) /\ 2 + 1 = 3 /\ 3 + 1 = 4
        BY <3>1
      <4>2. /\ Len(t[e + 2]) = 1 /\ t[e + 2] = w[2 + 1]
            /\ Len(t[e + 3]) = 1 /\ t[e + 3] = w[3 + 1]
        BY <1>4, <4>1
      <4> HIDE DEF e
      <4> QED BY <4>1, <4>2
    <3> HIDE DEF e, h, l
    <3>7. h \in Nat /\ l \in Nat /\ size = 256 * h + l
      BY <3>1
    <3>8. LongAt(t, e, n, h, l, size)
      BY <3>2, <3>4, <3>5, <3>6, Zenon DEF LongAt
    <3> QED BY <3>2, <3>7, <3>8, LongFrame, Zenon
  <2> QED BY <2>1, <2>2
<1>10. Parsed(t, S \cup {Len(t) + 1}, n)
  <2>1. TypeAt(t, e) \in {WS_TYPE_TEXT, WS_TYPE_PONG, WS_TYPE_CLOSE}
    BY <1>9
  <2>2. t \in Streams /\ Len(s) < Len(t) /\ \A i \in 1..Len(s) : t[i] = s[i]
    BY <1>2, <1>3
  <2>3. m <= n /\ n \in 0..n
    OBVIOUS
  <2>4. SizeAt(t, e) # 0 /\ Number(t, e) \in 0..n /\ m < Number(t, e)
    BY <1>9, <2>3
  <2>5. IsWhole(t, e) /\ Behind(t, e) = Len(t) + 1
    BY <1>9
  <2> QED BY <2>1, <2>2, <2>3, <2>4, <2>5, FrameAdded, Zenon DEF e
<1>11. t \in Streams /\ \E T : Parsed(t, T, n)
  BY <1>2, <1>10
<1> QED BY <1>11 DEF t

(* A message sent whole. *)
LEMMA MessageSent ==
    ASSUME NEW s \in Streams, NEW S, NEW m \in Nat, Parsed(s, S, m),
           NEW n \in Nat, m < n, NEW size \in 1..502, NEW u, u = MessageFrame(<<n, size>>)
    PROVE  s \o u \in Streams /\ \E T : Parsed(s \o u, T, n)
<1>1. PICK w \in Streams : IsFrameOf(u, w, n, size)
  BY MessageItems
<1>2. s \in Streams /\ m \in Nat /\ n \in Nat /\ size \in 1..502 /\ m < n /\ Parsed(s, S, m)
  OBVIOUS
<1> QED BY <1>1, <1>2, FrameSent, ZenonT(60)

-----------------------------------------------------------------------------
(***************************************************************************)
(* The invariant of the frames.  The numbers of the queue increase and are *)
(* the ones given so far; what the client has got of a connection on which *)
(* no message was cut off parses, and its messages are numbered before all *)
(* that are still queued.                                                  *)
(***************************************************************************)
InOrder(q, k) ==
    /\ q \in Seq(Nat \X Sizes)
    /\ \A i \in 1..Len(q) : q[i][1] \in 1..k
    /\ \A i, j \in 1..Len(q) : i < j => q[i][1] < q[j][1]

Unsent(q, m) == \A i \in 1..Len(q) : m < q[i][1]

IsPeer(p) ==
    p = [key |-> p.key, accept |-> p.accept, frames |-> p.frames, stream |-> p.stream, cut |-> p.cut]

Understands(p, q, k) ==
    /\ IsPeer(p)
    /\ ~p.cut => /\ p.stream \in Streams
                 /\ \E m \in 0..k : \E S : Parsed(p.stream, S, m) /\ Unsent(q, m)

Unmasked == handed # NULL /\ handed.of # NULL => handed.payload = handed.of.payload

FramesInv ==
    /\ made \in Nat /\ InOrder(websocketQueue, made)
    /\ Understands(peer, websocketQueue, made)
    /\ Unmasked

(* A stream with nothing in it. *)
LEMMA NothingSent == <<>> \in Streams /\ Parsed(<<>>, {1}, 0)
<1>1. <<>> \in Streams /\ Len(<<>>) = 0
  BY DEF Streams
<1>2. {1} \ {Len(<<>>) + 1} = {}
  BY <1>1
<1>3. Texts(<<>>, {1}) = {}
  BY <1>2 DEF Texts
<1>4. {1} \subseteq 1..Len(<<>>) + 1 /\ Len(<<>>) + 1 \in {1}
  BY <1>1
<1> QED BY <1>1, <1>2, <1>3, <1>4 DEF Parsed

LEMMA NewPeerUnderstands ==
    ASSUME NEW k \in Nat, NEW q, InOrder(q, k)
    PROVE  Understands(NewPeer, q, k)
<1>1. IsPeer(NewPeer) /\ NewPeer.stream = <<>>
  BY DEF IsPeer, NewPeer
<1>2. Unsent(q, 0)
  BY DEF Unsent, InOrder
<1>3. 0 \in 0..k
  OBVIOUS
<1> QED BY <1>1, <1>2, <1>3, NothingSent DEF Understands

(* A message that is queued, or lost because the queue is full. *)
LEMMA MessageQueued ==
    ASSUME NEW q, NEW k \in Nat, InOrder(q, k), NEW size \in Sizes, NEW r,
           r = q \/ r = Append(q, <<k + 1, size>>)
    PROVE  InOrder(r, k + 1) /\ \A m \in 0..k : Unsent(q, m) => Unsent(r, m)
<1>1. /\ q \in Seq(Nat \X Sizes) /\ \A i \in 1..Len(q) : q[i][1] \in 1..k
      /\ \A i, j \in 1..Len(q) : i < j => q[i][1] < q[j][1]
  BY DEF InOrder
<1>2. CASE r = q
  <2>1. \A i \in 1..Len(q) : q[i][1] \in 1..k + 1
    BY <1>1
  <2> QED BY <1>1, <1>2, <2>1 DEF InOrder
<1>3. CASE r = Append(q, <<k + 1, size>>)
  <2> DEFINE x == <<k + 1, size>>
             Q == Nat \X Sizes
  <2>1. x \in Q /\ x[1] = k + 1
    OBVIOUS
  <2>2. q \in Seq(Q) /\ r = Append(q, x)
    BY <1>1, <1>3
  <2> HIDE DEF x, Q
  <2>3. /\ r \in Seq(Q) /\ Len(r) = Len(q) + 1 /\ Len(q) \in Nat
        /\ \A i \in 1..Len(q) : r[i] = q[i]
        /\ r[Len(q) + 1] = x
    BY <2>1, <2>2
  <2>4. \A i \in 1..Len(r) : i \in 1..Len(q) \/ i = Len(q) + 1
    BY <2>3
  <2>5. ASSUME NEW i \in 1..Len(r) PROVE r[i][1] \in 1..k + 1
    <3>1. CASE i \in 1..Len(q)
      <4>1. r[i][1] \in 1..k
        BY <1>1, <2>3, <3>1
      <4> QED BY <4>1
    <3>2. CASE i = Len(q) + 1
      <4>1. r[i][1] = k + 1
        BY <2>1, <2>3, <3>2
      <4> QED BY <4>1
    <3> QED BY <2>4, <3>1, <3>2
  <2>6. ASSUME NEW i \in 1..Len(r), NEW j \in 1..Len(r), i < j PROVE r[i][1] < r[j][1]
    <3>1. i \in 1..Len(q)
      BY <2>3, <2>6
    <3>2. r[i][1] = q[i][1] /\ q[i][1] \in 1..k
      BY <1>1, <2>3, <3>1
    <3>3. CASE j \in 1..Len(q)
      <4>1. r[j][1] = q[j][1]
        BY <2>3, <3>3
      <4>2. q[i][1] < q[j][1]
        BY <1>1, <2>6, <3>1, <3>3
      <4> QED BY <3>2, <4>1, <4>2
    <3>4. CASE j = Len(q) + 1
      <4>1. r[j][1] = k + 1
        BY <2>1, <2>3, <3>4
      <4> QED BY <3>2, <4>1
    <3> QED BY <2>4, <3>3, <3>4
  <2>7. ASSUME NEW m \in 0..k, Unsent(q, m) PROVE Unsent(r, m)
    <3> SUFFICES ASSUME NEW i \in 1..Len(r) PROVE m < r[i][1]
      BY DEF Unsent
    <3>1. CASE i \in 1..Len(q)
      <4>1. r[i] = q[i] /\ m < q[i][1]
        BY <2>3, <2>7, <3>1 DEF Unsent
      <4> QED BY <4>1
    <3>2. CASE i = Len(q) + 1
      <4>1. r[i][1] = k + 1
        BY <2>1, <2>3, <3>2
      <4> QED BY <4>1
    <3> QED BY <2>4, <3>1, <3>2
  <2> QED BY <2>3, <2>5, <2>6, <2>7 DEF InOrder, Q
<1> QED BY <1>2, <1>3

LEMMA QueuedUnderstood ==
    ASSUME NEW p, NEW q, NEW r, NEW k \in Nat, Understands(p, q, k),
           \A m \in 0..k : Unsent(q, m) => Unsent(r, m)
    PROVE  Understands(p, r, k + 1)
<1>1. \A m \in 0..k : m \in 0..k + 1
  OBVIOUS
<1> QED BY <1>1, Zenon DEF Understands

(* The next message out of the queue. *)
LEMMA MessageTaken ==
    ASSUME NEW q, NEW k \in Nat, InOrder(q, k), q # <<>>
    PROVE  /\ InOrder(Tail(q), k)
           /\ \E n \in 1..k, size \in Sizes : Head(q) = <<n, size>>
           /\ Head(q)[1] \in 1..k /\ Unsent(Tail(q), Head(q)[1])
           /\ \A m \in 0..k : Unsent(q, m) => m < Head(q)[1] /\ Unsent(Tail(q), m)
<1> DEFINE r == Tail(q)
           Q == Nat \X Sizes
<1>1. /\ q \in Seq(Q) /\ \A i \in 1..Len(q) : q[i][1] \in 1..k
      /\ \A i, j \in 1..Len(q) : i < j => q[i][1] < q[j][1]
  BY DEF InOrder
<1>2. 1 \in 1..Len(q) /\ Head(q) = q[1] /\ Len(q) \in Nat
  <2>1. q \in Seq(Q)
    BY <1>1
  <2> HIDE DEF Q
  <2> QED BY <2>1
<1>3. /\ r \in Seq(Q) /\ Len(r) = Len(q) - 1 /\ Len(r) \in Nat
      /\ \A i \in 1..Len(r) : r[i] = q[i + 1]
  <2>1. q \in Seq(Q)
    BY <1>1
  <2> HIDE DEF Q
  <2> QED BY <1>2, <2>1
<1> HIDE DEF r
<1>4. \A i \in 1..Len(r) : i + 1 \in 1..Len(q) /\ 1 < i + 1
  BY <1>2, <1>3
<1>5. ASSUME NEW i \in 1..Len(r)
      PROVE  /\ r[i][1] \in 1..k /\ Head(q)[1] < r[i][1]
             /\ \A m : Unsent(q, m) => m < r[i][1]
  <2>1. r[i] = q[i + 1] /\ i + 1 \in 1..Len(q) /\ 1 < i + 1
    BY <1>3, <1>4
  <2>2. q[i + 1][1] \in 1..k
    BY <1>1, <2>1
  <2>3. q[1][1] < q[i + 1][1]
    BY <1>1, <1>2, <2>1
  <2>4. \A m : Unsent(q, m) => m < q[i + 1][1]
    BY <2>1 DEF Unsent
  <2> QED BY <1>2, <2>1, <2>2, <2>3, <2>4
<1>6. ASSUME NEW i \in 1..Len(r), NEW j \in 1..Len(r), i < j PROVE r[i][1] < r[j][1]
  <2>1. /\ r[i] = q[i + 1] /\ i + 1 \in 1..Len(q)
        /\ r[j] = q[j + 1] /\ j + 1 \in 1..Len(q) /\ i + 1 < j + 1
    BY <1>3, <1>4, <1>6
  <2>2. q[i + 1][1] < q[j + 1][1]
    BY <1>1, <2>1
  <2> QED BY <2>1, <2>2
<1>7. InOrder(r, k)
  BY <1>3, <1>5, <1>6 DEF InOrder
<1>8. Head(q)[1] \in 1..k /\ \A m : Unsent(q, m) => m < Head(q)[1]
  <2>1. q[1][1] \in 1..k
    BY <1>1, <1>2
  <2> QED BY <1>2, <2>1 DEF Unsent
<1>9. \E n \in 1..k, size \in Sizes : Head(q) = <<n, size>>
  <2>1. q[1] \in Q
    BY <1>1, <1>2
  <2>2. q[1] = <<q[1][1], q[1][2]>> /\ q[1][2] \in Sizes
    BY <2>1
  <2> QED BY <1>2, <1>8, <2>2
<1>10. Unsent(r, Head(q)[1]) /\ \A m : Unsent(q, m) => Unsent(r, m)
  BY <1>5 DEF Unsent
<1> QED BY <1>7, <1>8, <1>9, <1>10 DEF r

-----------------------------------------------------------------------------
(* What a call of lwip_send makes of the client's side. *)

LEMMA PeerFields ==
    ASSUME NEW p, IsPeer(p), NEW x
    PROVE  /\ IsPeer([p EXCEPT !.stream = x]) /\ [p EXCEPT !.stream = x].stream = x
           /\ [p EXCEPT !.stream = x].cut = p.cut
           /\ IsPeer([p EXCEPT !.cut = x]) /\ [p EXCEPT !.cut = x].cut = x
           /\ IsPeer([p EXCEPT !.frames = x]) /\ [p EXCEPT !.frames = x].cut = p.cut
           /\ [p EXCEPT !.frames = x].stream = p.stream
           /\ IsPeer([p EXCEPT !.key = x]) /\ [p EXCEPT !.key = x].cut = p.cut
           /\ [p EXCEPT !.key = x].stream = p.stream
           /\ IsPeer([p EXCEPT !.accept = x]) /\ [p EXCEPT !.accept = x].cut = p.cut
           /\ [p EXCEPT !.accept = x].stream = p.stream
<1>1. DOMAIN p = {"key", "accept", "frames", "stream", "cut"}
  BY DEF IsPeer
<1>2. /\ IsPeer([p EXCEPT !.stream = x]) /\ [p EXCEPT !.stream = x].stream = x
      /\ [p EXCEPT !.stream = x].cut = p.cut
  BY <1>1 DEF IsPeer
<1>3. IsPeer([p EXCEPT !.cut = x]) /\ [p EXCEPT !.cut = x].cut = x
  BY <1>1 DEF IsPeer
<1>4. /\ IsPeer([p EXCEPT !.frames = x]) /\ [p EXCEPT !.frames = x].cut = p.cut
      /\ [p EXCEPT !.frames = x].stream = p.stream
  BY <1>1 DEF IsPeer
<1>5. /\ IsPeer([p EXCEPT !.key = x]) /\ [p EXCEPT !.key = x].cut = p.cut
      /\ [p EXCEPT !.key = x].stream = p.stream
  BY <1>1 DEF IsPeer
<1>6. /\ IsPeer([p EXCEPT !.accept = x]) /\ [p EXCEPT !.accept = x].cut = p.cut
      /\ [p EXCEPT !.accept = x].stream = p.stream
  BY <1>1 DEF IsPeer
<1> QED BY <1>2, <1>3, <1>4, <1>5, <1>6

(* Either nothing arrives or the items do, behind what there is. *)
LEMMA SentIs ==
    ASSUME NEW p, IsPeer(p), NEW u, NEW x \in Sent(p, u)
    PROVE  x = p \/ (IsPeer(x) /\ x.cut = p.cut /\ x.stream = p.stream \o u)
<1> DEFINE y == p.stream \o u
<1>1. x = p \/ x = [p EXCEPT !.stream = y]
  BY DEF Sent
<1> HIDE DEF y
<1>2. /\ IsPeer([p EXCEPT !.stream = y]) /\ [p EXCEPT !.stream = y].stream = y
      /\ [p EXCEPT !.stream = y].cut = p.cut
  BY PeerFields
<1> QED BY <1>1, <1>2 DEF y

(* A received frame is counted. *)
LEMMA CountedUnderstands ==
    ASSUME NEW q, NEW k, Understands(peer, q, k)
    PROVE  Understands(Counted, q, k)
<1> DEFINE c == Counted
<1>1. IsPeer(peer)
  BY DEF Understands
<1>2. IsPeer(c) /\ c.cut = peer.cut /\ c.stream = peer.stream
  BY <1>1 DEF Counted, IsPeer
<1> HIDE DEF c
<1>3. Understands(c, q, k)
  BY <1>2 DEF Understands
<1> QED BY <1>3 DEF c

(* PONG or CLOSE. *)
LEMMA ControlUnderstood ==
    ASSUME NEW p, NEW q, NEW k \in Nat, Understands(p, q, k),
           NEW u, u = pong_frame \/ u = close_frame, NEW x \in Sent(p, u)
    PROVE  Understands(x, q, k)
<1>1. IsPeer(p)
  BY DEF Understands
<1>2. x = p \/ (IsPeer(x) /\ x.cut = p.cut /\ x.stream = p.stream \o u)
  BY <1>1, SentIs
<1>3. CASE x = p
  BY <1>3
<1>4. CASE IsPeer(x) /\ x.cut = p.cut /\ x.stream = p.stream \o u
  <2>1. ASSUME ~p.cut
        PROVE  /\ x.stream \in Streams
               /\ \E m \in 0..k : \E S : Parsed(x.stream, S, m) /\ Unsent(q, m)
    <3>0. PICK m \in 0..k : \E S : Parsed(p.stream, S, m) /\ Unsent(q, m)
      BY <2>1 DEF Understands
    <3>1. PICK S : Parsed(p.stream, S, m) /\ Unsent(q, m)
      BY <3>0
    <3>2. p.stream \in Streams /\ m \in Nat
      BY <2>1 DEF Understands
    <3>3. p.stream \o u \in Streams /\ \E T : Parsed(p.stream \o u, T, m)
      BY <3>1, <3>2, ControlSent
    <3> QED BY <1>4, <3>1, <3>3
  <2> QED BY <1>4, <2>1 DEF Understands
<1> QED BY <1>2, <1>3, <1>4

(* A message: nothing of it, all of it, or a part, which is marked. *)
LEMMA MessageUnderstood ==
    ASSUME NEW q, NEW k \in Nat, InOrder(q, k), q # <<>>, Understands(peer, q, k),
           NEW x \in send_message(Head(q))
    PROVE  Understands(x, Tail(q), k)
<1> DEFINE r == Tail(q)
           y == Head(q)
           u == MessageFrame(y)
           v == SubSeq(u, 1, Len(u) - 1)
<1>1. IsPeer(peer)
  BY DEF Understands
<1>2. PICK n \in 1..k, size \in Sizes : y = <<n, size>>
  BY MessageTaken
<1>3. y[1] \in 1..k /\ Unsent(r, y[1]) /\ \A m \in 0..k : Unsent(q, m) => m < y[1] /\ Unsent(r, m)
  BY MessageTaken
<1>4. y[1] = n /\ y[2] = size
  BY <1>2
<1>5. \/ x = peer
      \/ MessageFits(y) /\ x \in Sent(peer, u)
      \/ \E z \in Sent(peer, v) : x = [z EXCEPT !.cut = TRUE]
  BY DEF send_message
<1> SUFFICES Understands(x, r, k)
  OBVIOUS
<1> HIDE DEF r, y, u, v
<1>6. CASE x = peer
  <2>1. \A m \in 0..k : Unsent(q, m) => Unsent(r, m)
    BY <1>3
  <2> QED BY <1>6, <2>1, Zenon DEF Understands
<1>7. CASE MessageFits(y) /\ x \in Sent(peer, u)
  <2>1. x = peer \/ (IsPeer(x) /\ x.cut = peer.cut /\ x.stream = peer.stream \o u)
    BY <1>1, <1>7, SentIs
  <2>2. CASE IsPeer(x) /\ x.cut = peer.cut /\ x.stream = peer.stream \o u
    <3>1. ASSUME ~peer.cut
          PROVE  /\ x.stream \in Streams
                 /\ \E m \in 0..k : \E S : Parsed(x.stream, S, m) /\ Unsent(r, m)
      <4>0. PICK m \in 0..k : \E S : Parsed(peer.stream, S, m) /\ Unsent(q, m)
        BY <3>1 DEF Understands
      <4>1. PICK S : Parsed(peer.stream, S, m) /\ Unsent(q, m)
        BY <4>0
      <4>2. peer.stream \in Streams /\ m \in Nat /\ n \in Nat /\ n \in 0..k
        BY <3>1 DEF Understands
      <4>3. m < n /\ Unsent(r, n)
        BY <1>3, <1>4, <4>1
      <4>4. size \in 1..502
        <5>1. size \in Nat \ {0}
          BY TableAssumption
        <5>2. size + 10 <= 512
          BY <1>4, <1>7 DEF MessageFits, WS_SEND_BUFFER_SIZE
        <5> QED BY <5>1, <5>2
      <4>5. u = MessageFrame(<<n, size>>)
        BY <1>2 DEF u
      <4>6. peer.stream \o u \in Streams /\ \E T : Parsed(peer.stream \o u, T, n)
        BY <4>1, <4>2, <4>3, <4>4, <4>5, MessageSent
      <4> QED BY <2>2, <4>2, <4>3, <4>6
    <3> QED BY <2>2, <3>1 DEF Understands
  <2> QED BY <1>6, <2>1, <2>2
<1>8. CASE \E z \in Sent(peer, v) : x = [z EXCEPT !.cut = TRUE]
  <2>1. PICK z \in Sent(peer, v) : x = [z EXCEPT !.cut = TRUE]
    BY <1>8
  <2>2. IsPeer(z)
    BY <1>1, SentIs
  <2>3. IsPeer(x) /\ x.cut = TRUE
    BY <2>1, <2>2, PeerFields, Zenon
  <2> QED BY <2>3 DEF Understands
<1> QED BY <1>5, <1>6, <1>7, <1>8

-----------------------------------------------------------------------------
(* Every step keeps it. *)

LEMMA FramesStart == Init => FramesInv
<1>. SUFFICES ASSUME Init PROVE FramesInv
  OBVIOUS
<1>1. made = 0 /\ websocketQueue = <<>> /\ peer = NewPeer /\ handed = NULL
  BY DEF Init
<1>2. InOrder(<<>>, 0)
  BY DEF InOrder
<1>3. Understands(NewPeer, <<>>, 0)
  BY <1>2, NewPeerUnderstands
<1> QED BY <1>1, <1>2, <1>3 DEF FramesInv, Unmasked

LEMMA FramesUntouched ==
    ASSUME FramesInv, UNCHANGED data
    PROVE  FramesInv'
BY DEF FramesInv, Unmasked, data

(* Only the client's side changes. *)
LEMMA PeerChanges ==
    ASSUME FramesInv, UNCHANGED <<websocketQueue, made, handed>>,
           Understands(peer', websocketQueue, made)
    PROVE  FramesInv'
BY DEF FramesInv, Unmasked

LEMMA AcceptFrames == FramesInv /\ WsAccept => FramesInv'
<1>. SUFFICES ASSUME FramesInv, WsAccept PROVE FramesInv'
  OBVIOUS
<1>1. peer' = NewPeer /\ UNCHANGED <<websocketQueue, made, handed>>
  BY DEF WsAccept
<1>2. Understands(NewPeer, websocketQueue, made)
  BY NewPeerUnderstands DEF FramesInv
<1> QED BY <1>1, <1>2, PeerChanges

LEMMA HandshakeFrames == FramesInv /\ WsHandshake => FramesInv'
<1>. SUFFICES ASSUME FramesInv, WsHandshake PROVE FramesInv'
  OBVIOUS
<1>1. /\ UNCHANGED <<websocketQueue, made, handed>>
      /\ \E r : peer' = peer \/ peer' = [peer EXCEPT !.key = r.key, !.accept = process_handshake(r)]
  BY DEF WsHandshake
<1>2. PICK r : peer' = peer \/ peer' = [peer EXCEPT !.key = r.key, !.accept = process_handshake(r)]
  BY <1>1
<1>3. Understands(peer, websocketQueue, made)
  BY DEF FramesInv
<1>4. CASE peer' = [peer EXCEPT !.key = r.key, !.accept = process_handshake(r)]
  <2> DEFINE k == r.key
             a == process_handshake(r)
             p == [peer EXCEPT !.key = k, !.accept = a]
  <2>1. IsPeer(peer)
    BY <1>3 DEF Understands
  <2>2. peer' = p
    BY <1>4
  <2> HIDE DEF k, a
  <2>3. IsPeer(p) /\ p.cut = peer.cut /\ p.stream = peer.stream
    <3> DEFINE o == [peer EXCEPT !.key = k]
    <3>1. IsPeer(o) /\ o.cut = peer.cut /\ o.stream = peer.stream
      BY <2>1, PeerFields
    <3>2. p = [o EXCEPT !.accept = a]
      OBVIOUS
    <3> HIDE DEF o
    <3>3. /\ IsPeer([o EXCEPT !.accept = a]) /\ [o EXCEPT !.accept = a].cut = o.cut
          /\ [o EXCEPT !.accept = a].stream = o.stream
      BY <3>1, PeerFields
    <3> HIDE DEF p
    <3> QED BY <3>1, <3>2, <3>3, Zenon
  <2> HIDE DEF p
  <2>4. Understands(p, websocketQueue, made)
    BY <1>3, <2>3 DEF Understands
  <2> QED BY <1>1, <2>2, <2>4, PeerChanges
<1>5. CASE peer' = peer
  BY <1>1, <1>3, <1>5, PeerChanges
<1> QED BY <1>2, <1>4, <1>5

LEMMA ControlFrames == FramesInv /\ (WsCloseFrame \/ WsPing) => FramesInv'
<1>. SUFFICES ASSUME FramesInv, WsCloseFrame \/ WsPing PROVE FramesInv'
  OBVIOUS
<1>1. /\ UNCHANGED <<websocketQueue, made, handed>>
      /\ peer' \in Sent(Counted, close_frame) \/ peer' \in Sent(Counted, pong_frame)
  BY DEF WsCloseFrame, WsPing
<1>2. Understands(Counted, websocketQueue, made) /\ made \in Nat
  BY CountedUnderstands DEF FramesInv
<1>3. Understands(peer', websocketQueue, made)
  BY <1>1, <1>2, ControlUnderstood
<1> QED BY <1>1, <1>3, PeerChanges

(* What msg_handler is given: of a whole frame, what was masked. *)
LEMMA DataFrames == FramesInv /\ WsData => FramesInv'
<1>. SUFFICES ASSUME FramesInv, WsData PROVE FramesInv'
  OBVIOUS
<1>1. /\ UNCHANGED <<websocketQueue, made>> /\ peer' = Counted
      /\ \E r \in Received : handed' = handed \/ handed' = [payload |-> Payload(r.bytes), of |-> r.of]
  BY DEF WsData, Receives
<1>2. Understands(Counted, websocketQueue, made)
  BY CountedUnderstands DEF FramesInv
<1>3. PICK r \in Received : handed' = handed \/ handed' = [payload |-> Payload(r.bytes), of |-> r.of]
  BY <1>1
<1>4. r \in Frames \/ r.of = NULL
  BY DEF Received
<1>5. Unmasked'
  <2>1. CASE handed' = handed
    BY <2>1 DEF FramesInv, Unmasked
  <2>2. CASE handed' = [payload |-> Payload(r.bytes), of |-> r.of]
    <3>1. handed'.payload = Payload(r.bytes) /\ handed'.of = r.of
      BY <2>2
    <3>2. CASE r.of = NULL
      BY <3>1, <3>2 DEF Unmasked
    <3>3. CASE r \in Frames
      <4>1. PICK f \in ClientFrames : r = [bytes |-> ClientFrame(f), of |-> f]
        BY <3>3 DEF Frames
      <4>2. r.bytes = ClientFrame(f) /\ r.of = f
        BY <4>1
      <4>3. Payload(r.bytes) = f.payload
        BY <4>2, PayloadFound
      <4> QED BY <3>1, <4>2, <4>3 DEF Unmasked
    <3> QED BY <1>4, <3>2, <3>3
  <2> QED BY <1>3, <2>1, <2>2
<1> QED BY <1>1, <1>2, <1>5 DEF FramesInv

LEMMA IgnoredFrames == FramesInv /\ WsIgnored => FramesInv'
<1>. SUFFICES ASSUME FramesInv, WsIgnored PROVE FramesInv'
  OBVIOUS
<1>1. UNCHANGED <<websocketQueue, made, handed>> /\ peer' = Counted
  BY DEF WsIgnored
<1>2. Understands(Counted, websocketQueue, made)
  BY CountedUnderstands DEF FramesInv
<1> QED BY <1>1, <1>2, PeerChanges

(* A message into the queue, from the server's task or a sensor's. *)
LEMMA QueuedFrames ==
    ASSUME FramesInv, NEW size \in Sizes, Queued(size), UNCHANGED peer, Unmasked'
    PROVE  FramesInv'
<1>1. /\ made' = made + 1 /\ made \in Nat /\ InOrder(websocketQueue, made)
      /\ Understands(peer, websocketQueue, made)
      /\ \/ websocketQueue' = websocketQueue
         \/ websocketQueue' = Append(websocketQueue, <<made + 1, size>>)
  BY DEF Queued, FramesInv
<1>2. /\ InOrder(websocketQueue', made + 1)
      /\ \A m \in 0..made : Unsent(websocketQueue, m) => Unsent(websocketQueue', m)
  BY <1>1, MessageQueued
<1>3. Understands(peer, websocketQueue', made + 1)
  BY <1>1, <1>2, QueuedUnderstood
<1> QED BY <1>1, <1>2, <1>3 DEF FramesInv

LEMMA StatusFrames == FramesInv /\ WsStatus => FramesInv'
<1>. SUFFICES ASSUME FramesInv, WsStatus PROVE FramesInv'
  OBVIOUS
<1>1. handed' = NULL /\ UNCHANGED peer
  BY DEF WsStatus
<1>2. Unmasked'
  BY <1>1 DEF Unmasked
<1>3. UNCHANGED <<websocketQueue, made>> \/ \E size \in Sizes : Queued(size)
  BY DEF WsStatus
<1>4. CASE UNCHANGED <<websocketQueue, made>>
  BY <1>1, <1>2, <1>4 DEF FramesInv
<1>5. CASE \E size \in Sizes : Queued(size)
  BY <1>1, <1>2, <1>5, QueuedFrames
<1> QED BY <1>3, <1>4, <1>5

LEMMA PublishFrames == \A size \in Sizes : FramesInv /\ Publish(size) => FramesInv'
<1>. SUFFICES ASSUME NEW size \in Sizes, FramesInv, Publish(size) PROVE FramesInv'
  OBVIOUS
<1>1. Queued(size) /\ UNCHANGED peer /\ UNCHANGED handed
  BY DEF Publish
<1>2. Unmasked'
  BY <1>1 DEF FramesInv, Unmasked
<1> QED BY <1>1, <1>2, QueuedFrames

LEMMA DrainFrames == FramesInv /\ WsDrain => FramesInv'
<1>. SUFFICES ASSUME FramesInv, WsDrain PROVE FramesInv'
  OBVIOUS
<1>1. /\ websocketQueue # <<>> /\ websocketQueue' = Tail(websocketQueue)
      /\ peer' \in send_message(Head(websocketQueue)) /\ UNCHANGED <<made, handed>>
  BY DEF WsDrain
<1>2. /\ made \in Nat /\ InOrder(websocketQueue, made)
      /\ Understands(peer, websocketQueue, made) /\ Unmasked
  BY DEF FramesInv
<1>3. InOrder(Tail(websocketQueue), made)
  BY <1>1, <1>2, MessageTaken
<1>4. Understands(peer', Tail(websocketQueue), made)
  BY <1>1, <1>2, MessageUnderstood
<1>5. Unmasked'
  BY <1>1, <1>2 DEF Unmasked
<1> QED BY <1>1, <1>2, <1>3, <1>4, <1>5 DEF FramesInv

LEMMA FramesStep == FramesInv /\ [Next]_vars => FramesInv'
<1>. SUFFICES ASSUME FramesInv, [Next]_vars PROVE FramesInv'
  OBVIOUS
<1>1. CASE UNCHANGED vars
  BY <1>1, FramesUntouched DEF vars, ws
<1>2. CASE WsCreate \/ WsListen \/ WsListenFails \/ WsSelectNothing \/ WsReadable
  BY <1>2, FramesUntouched DEF WsCreate, WsListen, WsListenFails, WsSelectNothing, WsReadable
<1>3. CASE WsSelectError \/ WsSelectClose \/ WsDisconnected \/ WsHandshakeFails \/ WsRoundEnds
  BY <1>3, FramesUntouched
     DEF WsSelectError, WsSelectClose, WsDisconnected, WsHandshakeFails, WsRoundEnds
<1>4. CASE MqttInit \/ MqttNoBroker \/ MqttSocket \/ MqttConnected \/ MqttConnectFails
           \/ MqttSessionEnds \/ MqttClose
  <2>1. UNCHANGED ws
    BY <1>4 DEF MqttInit, MqttNoBroker, MqttSocket, MqttConnected, MqttConnectFails,
                MqttSessionEnds, MqttClose
  <2> QED BY <2>1, FramesUntouched DEF ws
<1>5. CASE WsAccept
  BY <1>5, AcceptFrames
<1>6. CASE WsHandshake
  BY <1>6, HandshakeFrames
<1>7. CASE WsCloseFrame \/ WsPing
  BY <1>7, ControlFrames
<1>8. CASE WsData
  BY <1>8, DataFrames
<1>9. CASE WsIgnored
  BY <1>9, IgnoredFrames
<1>10. CASE WsStatus
  BY <1>10, StatusFrames
<1>11. CASE WsDrain
  BY <1>11, DrainFrames
<1>12. CASE \E size \in Sizes : Publish(size)
  BY <1>12, PublishFrames
<1> QED
  BY <1>1, <1>2, <1>3, <1>4, <1>5, <1>6, <1>7, <1>8, <1>9, <1>10, <1>11, <1>12 DEF Next

(* FramesUnderstood: with every size of message, every frame of a client   *)
(* that fits into recv_buf and every interleaving of the two, server and   *)
(* client read in each other's frames what was put into them               *)
(* (send_message, get_payload_ptr).                                        *)
THEOREM FramesArrive == Spec => []FramesUnderstood
<1>1. FramesInv => FramesUnderstood
  <2>. SUFFICES ASSUME FramesInv PROVE FramesUnderstood
    OBVIOUS
  <2>1. StreamDecodes
    <3>1. CASE peer.cut
      BY <3>1 DEF StreamDecodes
    <3>2. CASE ~peer.cut
      <4>1. /\ peer.stream \in Streams
            /\ \E m \in 0..made : \E S : Parsed(peer.stream, S, m) /\ Unsent(websocketQueue, m)
        BY <3>2 DEF FramesInv, Understands
      <4> QED BY <4>1, ParsedDecodes
    <3> QED BY <3>1, <3>2
  <2> QED BY <2>1 DEF FramesUnderstood, FramesInv, Unmasked
<1> QED BY <1>1, FramesStart, FramesStep, PTL DEF Spec

-----------------------------------------------------------------------------
(* Base 64 (base64_encode): each group of four digits has the bits of its  *)
(* three bytes.  The bits of a digit and of a byte, from the left.         *)
LEMMA DigitBit ==
    ASSUME NEW x
    PROVE  /\ Bit(x, 6, 1) = BitOf(x, 32) /\ Bit(x, 6, 2) = BitOf(x, 16) /\ Bit(x, 6, 3) = BitOf(x, 8)
           /\ Bit(x, 6, 4) = BitOf(x, 4) /\ Bit(x, 6, 5) = BitOf(x, 2) /\ Bit(x, 6, 6) = BitOf(x, 1)
BY DEF Bit, BitOf

LEMMA ByteBit ==
    ASSUME NEW x
    PROVE  /\ Bit(x, 8, 1) = BitOf(x, 128) /\ Bit(x, 8, 2) = BitOf(x, 64) /\ Bit(x, 8, 3) = BitOf(x, 32)
           /\ Bit(x, 8, 4) = BitOf(x, 16) /\ Bit(x, 8, 5) = BitOf(x, 8) /\ Bit(x, 8, 6) = BitOf(x, 4)
           /\ Bit(x, 8, 7) = BitOf(x, 2) /\ Bit(x, 8, 8) = BitOf(x, 1)
BY DEF Bit, BitOf

LEMMA FirstDigit ==
    ASSUME NEW a \in Byte
    PROVE  /\ BitOf(a \div 4, 32) = BitOf(a, 128) /\ BitOf(a \div 4, 16) = BitOf(a, 64)
           /\ BitOf(a \div 4, 8) = BitOf(a, 32) /\ BitOf(a \div 4, 4) = BitOf(a, 16)
           /\ BitOf(a \div 4, 2) = BitOf(a, 8) /\ BitOf(a \div 4, 1) = BitOf(a, 4)
BY DEF BitOf, Byte

LEMMA SecondDigit ==
    ASSUME NEW a \in Byte, NEW b \in Byte, NEW d, d = (a % 4) * 16 + b \div 16
    PROVE  /\ BitOf(d, 32) = BitOf(a, 2) /\ BitOf(d, 16) = BitOf(a, 1)
           /\ BitOf(d, 8) = BitOf(b, 128) /\ BitOf(d, 4) = BitOf(b, 64)
           /\ BitOf(d, 2) = BitOf(b, 32) /\ BitOf(d, 1) = BitOf(b, 16)
BY DEF BitOf, Byte

LEMMA ThirdDigit ==
    ASSUME NEW a \in Byte, NEW b \in Byte, NEW d, d = (a % 16) * 4 + b \div 64
    PROVE  /\ BitOf(d, 32) = BitOf(a, 8) /\ BitOf(d, 16) = BitOf(a, 4)
           /\ BitOf(d, 8) = BitOf(a, 2) /\ BitOf(d, 4) = BitOf(a, 1)
           /\ BitOf(d, 2) = BitOf(b, 128) /\ BitOf(d, 1) = BitOf(b, 64)
<1> DEFINE u == a % 16
           v == b \div 64
<1>1. /\ u \in 0..15 /\ v \in 0..3 /\ d = 4 * u + v
      /\ (u \div 8) % 2 = (a \div 8) % 2 /\ (u \div 4) % 2 = (a \div 4) % 2
      /\ (u \div 2) % 2 = (a \div 2) % 2 /\ (u \div 1) % 2 = (a \div 1) % 2
      /\ (v \div 2) % 2 = (b \div 128) % 2 /\ (v \div 1) % 2 = (b \div 64) % 2
  BY DEF Byte
<1> HIDE DEF u, v
<1>2. /\ (d \div 32) % 2 = (u \div 8) % 2 /\ (d \div 16) % 2 = (u \div 4) % 2
      /\ (d \div 8) % 2 = (u \div 2) % 2 /\ (d \div 4) % 2 = (u \div 1) % 2
      /\ (d \div 2) % 2 = (v \div 2) % 2 /\ (d \div 1) % 2 = (v \div 1) % 2
  BY <1>1
<1> QED BY <1>1, <1>2, Zenon DEF BitOf

LEMMA FourthDigit ==
    ASSUME NEW a \in Byte
    PROVE  /\ BitOf(a % 64, 32) = BitOf(a, 32) /\ BitOf(a % 64, 16) = BitOf(a, 16)
           /\ BitOf(a % 64, 8) = BitOf(a, 8) /\ BitOf(a % 64, 4) = BitOf(a, 4)
           /\ BitOf(a % 64, 2) = BitOf(a, 2) /\ BitOf(a % 64, 1) = BitOf(a, 1)
BY DEF BitOf, Byte

(* Bit q of the 24 that start at byte i + 1 of in; behind the end, zero.   *)
StreamBit(in, i, q) ==
    IF q < 8 * (Len(in) - i) THEN Bit(in[i + q \div 8 + 1], 8, (q % 8) + 1) ELSE 0

Second(in, i) == IF i + 1 < Len(in) THEN in[i + 2] ELSE 0
Third(in, i) == IF i + 2 < Len(in) THEN in[i + 3] ELSE 0

LEMMA StreamBits ==
    ASSUME NEW in \in Seq(Byte), NEW i \in Nat, i < Len(in)
    PROVE  /\ in[i + 1] \in Byte /\ Second(in, i) \in Byte /\ Third(in, i) \in Byte
           /\ \A q \in 0..7 : StreamBit(in, i, q) = Bit(in[i + 1], 8, q + 1)
           /\ \A q \in 0..7 : StreamBit(in, i, 8 + q) = Bit(Second(in, i), 8, q + 1)
           /\ \A q \in 0..7 : StreamBit(in, i, 16 + q) = Bit(Third(in, i), 8, q + 1)
<1> DEFINE b == Second(in, i)
           c == Third(in, i)
<1> USE DEF Second, Third
<1>1. Len(in) \in Nat /\ in[i + 1] \in Byte
  OBVIOUS
<1>2. b \in Byte /\ c \in Byte
  <2>1. 0 \in Byte
    BY DEF Byte
  <2>2. i + 1 < Len(in) => in[i + 2] \in Byte
    BY <1>1
  <2>3. i + 2 < Len(in) => in[i + 3] \in Byte
    BY <1>1
  <2> QED BY <2>1, <2>2, <2>3, Zenon
<1>3. \A q \in 0..7 : Bit(0, 8, q + 1) = 0
  <2> SUFFICES ASSUME NEW q \in 0..7 PROVE Bit(0, 8, q + 1) = 0
    OBVIOUS
  <2>1. q + 1 \in 1..8 /\ \A w \in {1, 2, 4, 8, 16, 32, 64, 128} : BitOf(0, w) = 0
    BY DEF BitOf
  <2>2. q + 1 \in {1, 2, 3, 4, 5, 6, 7, 8}
    BY <2>1
  <2> QED BY <2>1, <2>2, ByteBit
<1>4. ASSUME NEW q \in 0..7
      PROVE  StreamBit(in, i, q) = Bit(in[i + 1], 8, q + 1)
  <2>1. q \div 8 = 0 /\ q % 8 = q /\ q < 8 * (Len(in) - i) /\ i + 0 + 1 = i + 1
    BY <1>1
  <2> QED BY <2>1 DEF StreamBit
<1>5. ASSUME NEW q \in 0..7
      PROVE  StreamBit(in, i, 8 + q) = Bit(b, 8, q + 1)
  <2>1. (8 + q) \div 8 = 1 /\ (8 + q) % 8 = q /\ i + 1 + 1 = i + 2
    OBVIOUS
  <2>2. CASE i + 1 < Len(in)
    <3>1. 8 + q < 8 * (Len(in) - i) /\ b = in[i + 2]
      BY <1>1, <2>2
    <3> QED BY <2>1, <3>1 DEF StreamBit
  <2>3. CASE ~(i + 1 < Len(in))
    <3>1. ~(8 + q < 8 * (Len(in) - i)) /\ b = 0
      BY <1>1, <2>3
    <3> QED BY <1>3, <3>1 DEF StreamBit
  <2> QED BY <2>2, <2>3
<1>6. ASSUME NEW q \in 0..7
      PROVE  StreamBit(in, i, 16 + q) = Bit(c, 8, q + 1)
  <2>1. (16 + q) \div 8 = 2 /\ (16 + q) % 8 = q /\ i + 2 + 1 = i + 3
    OBVIOUS
  <2>2. CASE i + 2 < Len(in)
    <3>1. 16 + q < 8 * (Len(in) - i) /\ c = in[i + 3]
      BY <1>1, <2>2
    <3> QED BY <2>1, <3>1 DEF StreamBit
  <2>3. CASE ~(i + 2 < Len(in))
    <3>1. ~(16 + q < 8 * (Len(in) - i)) /\ c = 0
      BY <1>1, <2>3
    <3> QED BY <1>3, <3>1 DEF StreamBit
  <2> QED BY <2>2, <2>3
<1> QED BY <1>1, <1>2, <1>4, <1>5, <1>6

(* The four digits of three bytes; a digit is of a byte when one of its    *)
(* bits is.                                                                *)
LEMMA FourDigits ==
    ASSUME NEW in \in Seq(Byte), NEW i \in Nat, i < Len(in), NEW o \in 0..3, NEW d,
           d = base64_digit(in, i, o)
    PROVE  IF 6 * o >= 8 * (Len(in) - i) THEN d = PAD
           ELSE \A r \in 0..5 : Bit(d, 6, r + 1) = StreamBit(in, i, 6 * o + r)
<1> DEFINE n == Len(in)
           a == in[i + 1]
           b == Second(in, i)
           c == Third(in, i)
<1>1. /\ a \in Byte /\ b \in Byte /\ c \in Byte
      /\ \A q \in 0..7 : StreamBit(in, i, q) = Bit(a, 8, q + 1)
      /\ \A q \in 0..7 : StreamBit(in, i, 8 + q) = Bit(b, 8, q + 1)
      /\ \A q \in 0..7 : StreamBit(in, i, 16 + q) = Bit(c, 8, q + 1)
  BY StreamBits, Zenon
<1>t. a \in Byte /\ b \in Byte /\ c \in Byte
  BY <1>1
<1>2. n \in Nat
  OBVIOUS
<1>3. o = 0 => d = a \div 4
  BY DEF base64_digit
<1>4. o = 1 => d = (a % 4) * 16 + b \div 16
  BY DEF base64_digit, Second
<1>5. o = 2 /\ i + 1 < n => d = (b % 16) * 4 + c \div 64
  BY DEF base64_digit, Second, Third
<1>6. o = 2 /\ ~(i + 1 < n) => d = PAD
  BY DEF base64_digit
<1>7. o = 3 /\ i + 2 < n => d = c % 64
  BY DEF base64_digit, Third
<1>8. o = 3 /\ ~(i + 2 < n) => d = PAD
  BY DEF base64_digit
<1> DEFINE B(x) == BitOf(d, x)
           S(q) == StreamBit(in, i, q)
<1> HIDE DEF a, b, c, n
<1>9. /\ S(0) = BitOf(a, 128) /\ S(1) = BitOf(a, 64) /\ S(2) = BitOf(a, 32) /\ S(3) = BitOf(a, 16)
      /\ S(4) = BitOf(a, 8) /\ S(5) = BitOf(a, 4) /\ S(6) = BitOf(a, 2) /\ S(7) = BitOf(a, 1)
  BY <1>1, ByteBit
<1>10. /\ S(8) = BitOf(b, 128) /\ S(9) = BitOf(b, 64) /\ S(10) = BitOf(b, 32) /\ S(11) = BitOf(b, 16)
       /\ S(12) = BitOf(b, 8) /\ S(13) = BitOf(b, 4) /\ S(14) = BitOf(b, 2) /\ S(15) = BitOf(b, 1)
  BY <1>1, ByteBit
<1>11. /\ S(16) = BitOf(c, 128) /\ S(17) = BitOf(c, 64) /\ S(18) = BitOf(c, 32) /\ S(19) = BitOf(c, 16)
       /\ S(20) = BitOf(c, 8) /\ S(21) = BitOf(c, 4) /\ S(22) = BitOf(c, 2) /\ S(23) = BitOf(c, 1)
  BY <1>1, ByteBit
<1>12. ASSUME /\ BitOf(d, 32) = S(6 * o) /\ BitOf(d, 16) = S(6 * o + 1) /\ BitOf(d, 8) = S(6 * o + 2)
              /\ BitOf(d, 4) = S(6 * o + 3) /\ BitOf(d, 2) = S(6 * o + 4) /\ BitOf(d, 1) = S(6 * o + 5)
       PROVE  \A r \in 0..5 : Bit(d, 6, r + 1) = S(6 * o + r)
  <2> SUFFICES ASSUME NEW r \in 0..5 PROVE Bit(d, 6, r + 1) = S(6 * o + r)
    OBVIOUS
  <2>1. r \in {0, 1, 2, 3, 4, 5} /\ 6 * o + 0 = 6 * o /\ 0 + 1 = 1 /\ 1 + 1 = 2 /\ 2 + 1 = 3
        /\ 3 + 1 = 4 /\ 4 + 1 = 5 /\ 5 + 1 = 6
    OBVIOUS
  <2> HIDE DEF S
  <2> QED BY <1>12, <2>1, DigitBit
<1>13. CASE o = 0
  <2>1. d = a \div 4 /\ ~(6 * o >= 8 * (n - i))
    BY <1>2, <1>3, <1>13 DEF n
  <2>2. /\ BitOf(d, 32) = BitOf(a, 128) /\ BitOf(d, 16) = BitOf(a, 64)
        /\ BitOf(d, 8) = BitOf(a, 32) /\ BitOf(d, 4) = BitOf(a, 16)
        /\ BitOf(d, 2) = BitOf(a, 8) /\ BitOf(d, 1) = BitOf(a, 4)
    BY <1>t, <2>1, FirstDigit
  <2>3. 6 * o = 0 /\ 6 * o + 1 = 1 /\ 6 * o + 2 = 2 /\ 6 * o + 3 = 3 /\ 6 * o + 4 = 4 /\ 6 * o + 5 = 5
    BY <1>13
  <2> HIDE DEF S
  <2>4. \A r \in 0..5 : Bit(d, 6, r + 1) = S(6 * o + r)
    BY <1>9, <1>12, <2>2, <2>3
  <2> QED BY <2>1, <2>4 DEF n, S
<1>14. CASE o = 1
  <2>1. d = (a % 4) * 16 + b \div 16 /\ ~(6 * o >= 8 * (n - i))
    BY <1>2, <1>4, <1>14 DEF n
  <2>2. /\ BitOf(d, 32) = BitOf(a, 2) /\ BitOf(d, 16) = BitOf(a, 1)
        /\ BitOf(d, 8) = BitOf(b, 128) /\ BitOf(d, 4) = BitOf(b, 64)
        /\ BitOf(d, 2) = BitOf(b, 32) /\ BitOf(d, 1) = BitOf(b, 16)
    BY <1>t, <2>1, SecondDigit
  <2>3. 6 * o = 6 /\ 6 * o + 1 = 7 /\ 6 * o + 2 = 8 /\ 6 * o + 3 = 9 /\ 6 * o + 4 = 10 /\ 6 * o + 5 = 11
    BY <1>14
  <2> HIDE DEF S
  <2>4. \A r \in 0..5 : Bit(d, 6, r + 1) = S(6 * o + r)
    BY <1>9, <1>10, <1>12, <2>2, <2>3
  <2> QED BY <2>1, <2>4 DEF n, S
<1>15. CASE o = 2
  <2>1. CASE ~(i + 1 < n)
    <3>1. d = PAD /\ 6 * o >= 8 * (n - i)
      BY <1>2, <1>6, <1>15, <2>1
    <3> QED BY <3>1 DEF n
  <2>2. CASE i + 1 < n
    <3>1. d = (b % 16) * 4 + c \div 64 /\ ~(6 * o >= 8 * (n - i))
      BY <1>2, <1>5, <1>15, <2>2
    <3>2. /\ BitOf(d, 32) = BitOf(b, 8) /\ BitOf(d, 16) = BitOf(b, 4)
          /\ BitOf(d, 8) = BitOf(b, 2) /\ BitOf(d, 4) = BitOf(b, 1)
          /\ BitOf(d, 2) = BitOf(c, 128) /\ BitOf(d, 1) = BitOf(c, 64)
      BY <1>t, <3>1, ThirdDigit
    <3>3. 6 * o = 12 /\ 6 * o + 1 = 13 /\ 6 * o + 2 = 14 /\ 6 * o + 3 = 15 /\ 6 * o + 4 = 16 /\ 6 * o + 5 = 17
      BY <1>15
    <3> HIDE DEF S
    <3>4. \A r \in 0..5 : Bit(d, 6, r + 1) = S(6 * o + r)
      BY <1>10, <1>11, <1>12, <3>2, <3>3
    <3> QED BY <3>1, <3>4 DEF n, S
  <2> QED BY <2>1, <2>2
<1>16. CASE o = 3
  <2>1. CASE ~(i + 2 < n)
    <3>1. d = PAD /\ 6 * o >= 8 * (n - i)
      BY <1>2, <1>8, <1>16, <2>1
    <3> QED BY <3>1 DEF n
  <2>2. CASE i + 2 < n
    <3>1. d = c % 64 /\ ~(6 * o >= 8 * (n - i))
      BY <1>2, <1>7, <1>16, <2>2
    <3>2. /\ BitOf(d, 32) = BitOf(c, 32) /\ BitOf(d, 16) = BitOf(c, 16)
          /\ BitOf(d, 8) = BitOf(c, 8) /\ BitOf(d, 4) = BitOf(c, 4)
          /\ BitOf(d, 2) = BitOf(c, 2) /\ BitOf(d, 1) = BitOf(c, 1)
      BY <1>t, <3>1, FourthDigit
    <3>3. 6 * o = 18 /\ 6 * o + 1 = 19 /\ 6 * o + 2 = 20 /\ 6 * o + 3 = 21 /\ 6 * o + 4 = 22 /\ 6 * o + 5 = 23
      BY <1>16
    <3> HIDE DEF S
    <3>4. \A r \in 0..5 : Bit(d, 6, r + 1) = S(6 * o + r)
      BY <1>11, <1>12, <3>2, <3>3
    <3> QED BY <3>1, <3>4 DEF n, S
  <2> QED BY <2>1, <2>2
<1>17. o \in {0, 1, 2, 3}
  OBVIOUS
<1> QED BY <1>13, <1>14, <1>15, <1>16, <1>17

(* base64_encode gives the digits of the bits. *)
LEMMA Encoded ==
    ASSUME NEW in \in Seq(Byte)
    PROVE  IsBase64Of(base64_encode(in), in)
<1> DEFINE n == Len(in)
           m == 4 * ((n + 2) \div 3)
           ds == base64_encode(in)
<1>1. n \in Nat /\ m \in Nat /\ DOMAIN ds = 1..m /\ Len(ds) = m
  <2>1. n \in Nat
    OBVIOUS
  <2>2. m \in Nat
    <3> HIDE DEF n
    <3> QED BY <2>1
  <2>3. ds = [k \in 1..m |-> base64_digit(in, 3 * ((k - 1) \div 4), (k - 1) % 4)]
    BY DEF base64_encode
  <2> HIDE DEF ds, m, n
  <2> QED BY <2>1, <2>2, <2>3
<1>2. ASSUME NEW k \in 0..6 * m - 1
      PROVE  LET d == ds[k \div 6 + 1]
             IN  IF 6 * (k \div 6) >= 8 * n THEN d = PAD
                 ELSE Bit(d, 6, (k % 6) + 1) =
                         IF k < 8 * n THEN Bit(in[k \div 8 + 1], 8, (k % 8) + 1) ELSE 0
  <2> DEFINE p == k \div 6
             r == k % 6
             i == 3 * (p \div 4)
             o == p % 4
             d == ds[p + 1]
  <2>1. k \in Nat /\ p \in 0..m - 1 /\ r \in 0..5 /\ k = 6 * p + r
    <3> HIDE DEF m
    <3> QED BY <1>1
  <2>2. i \in Nat /\ o \in 0..3 /\ i < n /\ k = 8 * i + 6 * o + r /\ 6 * p = 8 * i + 6 * o
    <3>1. p \in Nat /\ p < 4 * ((n + 2) \div 3)
      BY <1>1, <2>1
    <3> HIDE DEF p, n, r
    <3>2. p = 4 * (p \div 4) + o /\ o \in 0..3 /\ p \div 4 \in Nat
      BY <3>1
    <3>3. p \div 4 < (n + 2) \div 3
      BY <1>1, <3>1, <3>2
    <3>4. 3 * (p \div 4) < n
      BY <1>1, <3>2, <3>3
    <3> QED BY <2>1, <3>2, <3>4
  <2>3. d = base64_digit(in, i, o)
    <3>1. p + 1 \in 1..m /\ (p + 1) - 1 = p
      <4> HIDE DEF p, m
      <4> QED BY <1>1, <2>1
    <3> HIDE DEF p, m
    <3> QED BY <3>1 DEF base64_encode, m
  <2> HIDE DEF d, i, o, ds, m, p, r
  <2>4. IF 6 * o >= 8 * (n - i) THEN d = PAD
        ELSE \A x \in 0..5 : Bit(d, 6, x + 1) = StreamBit(in, i, 6 * o + x)
    BY <2>2, <2>3, FourDigits
  <2>5. CASE 6 * o >= 8 * (n - i)
    <3>1. 6 * p >= 8 * n
      <4> HIDE DEF n
      <4> QED BY <1>1, <2>2, <2>5
    <3>2. d = PAD
      BY <2>4, <2>5
    <3> QED BY <3>1, <3>2 DEF d, p
  <2>6. CASE ~(6 * o >= 8 * (n - i))
    <3>1. ~(6 * p >= 8 * n)
      <4> HIDE DEF n
      <4> QED BY <1>1, <2>2, <2>6
    <3>2. Bit(d, 6, r + 1) = StreamBit(in, i, 6 * o + r)
      BY <2>1, <2>4, <2>6
    <3>3. /\ (6 * o + r < 8 * (n - i)) = (k < 8 * n)
          /\ i + (6 * o + r) \div 8 = k \div 8 /\ (6 * o + r) % 8 = k % 8
      <4> DEFINE q == 6 * o + r
      <4>1. q \in Nat /\ k = 8 * i + q
        BY <2>1, <2>2
      <4> HIDE DEF n, q
      <4>2. (q < 8 * (n - i)) = (k < 8 * n)
        BY <1>1, <2>2, <4>1
      <4>3. i + q \div 8 = k \div 8 /\ q % 8 = k % 8
        BY <2>2, <4>1
      <4> QED BY <4>2, <4>3 DEF q
    <3>4. StreamBit(in, i, 6 * o + r) = IF k < 8 * n THEN Bit(in[k \div 8 + 1], 8, (k % 8) + 1) ELSE 0
      BY <3>3 DEF StreamBit
    <3> QED BY <3>1, <3>2, <3>4 DEF d, p, r
  <2> QED BY <2>5, <2>6
<1> HIDE DEF ds
<1>3. \A k \in 0..6 * Len(ds) - 1 :
          LET d == ds[k \div 6 + 1]
          IN  IF 6 * (k \div 6) >= 8 * n THEN d = PAD
              ELSE Bit(d, 6, (k % 6) + 1) =
                      IF k < 8 * n THEN Bit(in[k \div 8 + 1], 8, (k % 8) + 1) ELSE 0
  BY <1>1, <1>2
<1>4. IsBase64Of(ds, in)
  BY <1>1, <1>3 DEF IsBase64Of
<1> QED BY <1>4 DEF ds

LEMMA BytesJoined ==
    ASSUME NEW a \in Seq(Byte), NEW b \in Seq(Byte)
    PROVE  a \o b \in Seq(Byte) /\ Len(a \o b) = Len(a) + Len(b)
OBVIOUS

-----------------------------------------------------------------------------
(***************************************************************************)
(* The hash.  sha1_transform is only known to make a digest of a digest    *)
(* and a block.                                                            *)
(***************************************************************************)
Digest == [1..20 -> Byte]
Transforms == \A h \in Digest, block \in [1..BLOCK -> Byte] : sha1_transform(h, block) \in Digest

Block(bytes, k) == SubSeq(bytes, BLOCK * (k - 1) + 1, BLOCK * k)

(* The recursion of Blocks. *)
Hashes(h0, bytes, n, f) ==
    [k \in 0..n |-> IF k = 0 THEN h0 ELSE sha1_transform(f[k - 1], Block(bytes, k))]

LEMMA HashesExist ==
    ASSUME NEW h0, NEW bytes, NEW n \in Nat
    PROVE  \E f : f = Hashes(h0, bytes, n, f)
<1> DEFINE Bad == {r \in Nat : ~ \E f : f = Hashes(h0, bytes, r, f)}
<1>1. SUFFICES ASSUME Bad # {} PROVE FALSE
  OBVIOUS
<1>2. PICK m \in Bad : \A y \in Bad : m <= y
  <2>1. Bad \in SUBSET Nat
    OBVIOUS
  <2> HIDE DEF Bad
  <2> QED BY <1>1, <2>1, Least
<1>3. m # 0
  <2> SUFFICES ASSUME m = 0 PROVE FALSE
    OBVIOUS
  <2> DEFINE f == [k \in 0..0 |-> h0]
  <2>1. f = Hashes(h0, bytes, 0, f)
    BY DEF Hashes
  <2> HIDE DEF f
  <2> QED BY <2>1
<1>4. m - 1 \in Nat /\ m - 1 \notin Bad
  BY <1>2, <1>3
<1>5. PICK f : f = Hashes(h0, bytes, m - 1, f)
  BY <1>4
<1> DEFINE g == [k \in 0..m |-> IF k = 0 THEN h0 ELSE sha1_transform(f[k - 1], Block(bytes, k))]
<1>6. ASSUME NEW k \in 0..m, k # 0 PROVE g[k - 1] = f[k - 1]
  <2>1. k - 1 \in 0..m - 1 /\ k - 1 \in 0..m
    BY <1>6
  <2>2. f[k - 1] = IF k - 1 = 0 THEN h0 ELSE sha1_transform(f[(k - 1) - 1], Block(bytes, k - 1))
    <3> DEFINE w == Hashes(h0, bytes, m - 1, f)
    <3>1. w[k - 1] = IF k - 1 = 0 THEN h0 ELSE sha1_transform(f[(k - 1) - 1], Block(bytes, k - 1))
      BY <2>1 DEF Hashes
    <3> HIDE DEF w
    <3>2. f = w
      BY <1>5 DEF w
    <3> QED BY <3>1, <3>2
  <2> QED BY <2>1, <2>2
<1>7. g = Hashes(h0, bytes, m, g)
  <2> DEFINE w == Hashes(h0, bytes, m, g)
  <2>1. w = [k \in 0..m |-> IF k = 0 THEN h0 ELSE sha1_transform(g[k - 1], Block(bytes, k))]
    BY DEF Hashes
  <2>2. \A k \in 0..m : (IF k = 0 THEN h0 ELSE sha1_transform(f[k - 1], Block(bytes, k)))
                          = (IF k = 0 THEN h0 ELSE sha1_transform(g[k - 1], Block(bytes, k)))
    BY <1>6
  <2> HIDE DEF w
  <2>3. g = w
    BY <2>1, <2>2
  <2> QED BY <2>3 DEF w
<1> HIDE DEF g
<1> QED BY <1>7

LEMMA BlocksAre ==
    ASSUME NEW h0, NEW bytes \in Seq(Byte), NEW n, n = Len(bytes) \div BLOCK, NEW f, f = Blocks(h0, bytes)
    PROVE  /\ n \in Nat /\ f[0] = h0
           /\ \A k \in 1..n : f[k] = sha1_transform(f[k - 1], Block(bytes, k))
<1>0. n \in Nat
  <2>1. Len(bytes) \in Nat
    OBVIOUS
  <2> QED BY <2>1 DEF BLOCK
<1>1. f = Hashes(h0, bytes, n, f)
  <2>1. f = CHOOSE g : g = Hashes(h0, bytes, n, g)
    BY DEF Blocks, Hashes, Block
  <2> QED BY <1>0, <2>1, HashesExist
<1> DEFINE w == Hashes(h0, bytes, n, f)
<1>2. \A k \in 0..n : w[k] = IF k = 0 THEN h0 ELSE sha1_transform(f[k - 1], Block(bytes, k))
  BY DEF Hashes
<1> HIDE DEF w
<1>3. f = w
  BY <1>1 DEF w
<1>4. \A k \in 0..n : f[k] = IF k = 0 THEN h0 ELSE sha1_transform(f[k - 1], Block(bytes, k))
  BY <1>2, <1>3
<1>5. 0 \in 0..n /\ \A k \in 1..n : k \in 0..n /\ k # 0
  BY <1>0
<1> QED BY <1>0, <1>4, <1>5

(* A block that is there has 64 bytes. *)
LEMMA BlockIs ==
    ASSUME NEW bytes \in Seq(Byte), NEW k \in Nat \ {0}, BLOCK * k <= Len(bytes)
    PROVE  /\ Block(bytes, k) \in [1..BLOCK -> Byte]
           /\ \A i \in 1..BLOCK : Block(bytes, k)[i] = bytes[BLOCK * (k - 1) + i]
<1> DEFINE b == BLOCK * (k - 1)
<1>1. b \in Nat /\ BLOCK * k = b + 64 /\ BLOCK = 64 /\ Len(bytes) \in Nat
  BY DEF BLOCK
<1>2. Block(bytes, k) = SubSeq(bytes, b + 1, b + 64)
  BY <1>1, Zenon DEF Block
<1> HIDE DEF b
<1>3. b + 64 <= Len(bytes)
  BY <1>1
<1>4. /\ SubSeq(bytes, b + 1, b + 64) \in [1..64 -> Byte]
      /\ \A i \in 1..64 : SubSeq(bytes, b + 1, b + 64)[i] = bytes[b + i]
  <2> DEFINE v == SubSeq(bytes, b + 1, b + 64)
  <2>1. b + 1 \in 1..Len(bytes) + 1 /\ b + 64 \in (b + 1) - 1..Len(bytes) /\ b \in Nat
    BY <1>1, <1>3
  <2>2. /\ v \in Seq(Byte) /\ Len(v) = (b + 64) - (b + 1) + 1
        /\ \A i \in 1..(b + 64) - (b + 1) + 1 : v[i] = bytes[(b + 1) + i - 1]
    BY <2>1, SubSeqProperties
  <2> HIDE DEF v
  <2>3. (b + 64) - (b + 1) + 1 = 64 /\ \A i \in 1..64 : (b + 1) + i - 1 = b + i
    BY <2>1
  <2>4. v \in Seq(Byte) /\ Len(v) = 64 /\ \A i \in 1..64 : v[i] = bytes[b + i]
    <3>1. v \in Seq(Byte) /\ Len(v) = 64
      BY <2>2, <2>3
    <3>2. ASSUME NEW i \in 1..64 PROVE v[i] = bytes[b + i]
      <4>1. v[i] = bytes[(b + 1) + i - 1]
        BY <2>2, <2>3
      <4> QED BY <2>3, <4>1
    <3> QED BY <3>1, <3>2
  <2>5. v \in [1..64 -> Byte]
    <3>1. v \in Seq(Byte) /\ Len(v) = 64
      BY <2>4
    <3>2. v \in [1..Len(v) -> Byte]
      BY <3>1, LenProperties
    <3> QED BY <3>1, <3>2
  <2> QED BY <2>4, <2>5 DEF v
<1> QED BY <1>1, <1>2, <1>4 DEF b

LEMMA BlocksTyped ==
    ASSUME Transforms, NEW h0 \in Digest, NEW bytes \in Seq(Byte), NEW n, n = Len(bytes) \div BLOCK
    PROVE  n \in Nat /\ \A k \in 0..n : Blocks(h0, bytes)[k] \in Digest
<1> DEFINE f == Blocks(h0, bytes)
           Bad == {k \in 0..n : f[k] \notin Digest}
<1>1. n \in Nat /\ f[0] = h0 /\ \A k \in 1..n : f[k] = sha1_transform(f[k - 1], Block(bytes, k))
  BY BlocksAre
<1> HIDE DEF f
<1>2. Bad = {}
  <2> SUFFICES ASSUME Bad # {} PROVE FALSE
    OBVIOUS
  <2>1. Bad \in SUBSET Nat
    OBVIOUS
  <2>2. PICK m \in Bad : \A y \in Bad : m <= y
    <3> HIDE DEF Bad
    <3> QED BY <2>1, Least
  <2>3. m # 0
    BY <1>1
  <2>4. m \in 1..n /\ m - 1 \in 0..n /\ m - 1 \notin Bad
    BY <2>2, <2>3
  <2>5. f[m - 1] \in Digest
    BY <2>4
  <2>6. Block(bytes, m) \in [1..BLOCK -> Byte]
    <3>1. m \in Nat \ {0} /\ BLOCK * m <= Len(bytes)
      <4>1. Len(bytes) \in Nat /\ m <= Len(bytes) \div 64 /\ m \in Nat \ {0}
        BY <1>1, <2>4 DEF BLOCK
      <4> QED BY <4>1 DEF BLOCK
    <3> QED BY <3>1, BlockIs
  <2>7. f[m] = sha1_transform(f[m - 1], Block(bytes, m))
    BY <1>1, <2>4
  <2>8. f[m] \in Digest
    BY <2>5, <2>6, <2>7 DEF Transforms
  <2> QED BY <2>2, <2>8
<1> QED BY <1>1, <1>2 DEF f

(* The first blocks of a longer message have the same hash. *)
LEMMA BlocksOfPrefix ==
    ASSUME NEW h0, NEW msg \in Seq(Byte), NEW all \in Seq(Byte), Len(msg) <= Len(all),
           \A i \in 1..Len(msg) : all[i] = msg[i],
           NEW n, n = Len(msg) \div BLOCK
    PROVE  n \in Nat /\ Blocks(h0, all)[n] = Blocks(h0, msg)[n]
<1> DEFINE f == Blocks(h0, msg)
           g == Blocks(h0, all)
           m == Len(all) \div BLOCK
           Bad == {k \in 0..n : f[k] # g[k]}
<1>1. n \in Nat /\ f[0] = h0 /\ \A k \in 1..n : f[k] = sha1_transform(f[k - 1], Block(msg, k))
  BY BlocksAre
<1>2. m \in Nat /\ g[0] = h0 /\ \A k \in 1..m : g[k] = sha1_transform(g[k - 1], Block(all, k))
  BY BlocksAre
<1>3. n <= m
  <2>1. Len(msg) \in Nat /\ Len(all) \in Nat
    OBVIOUS
  <2> QED BY <2>1 DEF BLOCK
<1>4. ASSUME NEW k \in 1..n PROVE Block(all, k) = Block(msg, k)
  <2>1. k \in Nat \ {0} /\ Len(msg) \in Nat /\ Len(all) \in Nat
    BY <1>1
  <2>2. BLOCK * k <= Len(msg) /\ BLOCK * k <= Len(all)
    <3>1. k <= Len(msg) \div 64
      BY DEF BLOCK
    <3> QED BY <2>1, <3>1 DEF BLOCK
  <2>3. /\ Block(all, k) \in [1..BLOCK -> Byte] /\ Block(msg, k) \in [1..BLOCK -> Byte]
        /\ \A i \in 1..BLOCK : Block(all, k)[i] = all[BLOCK * (k - 1) + i]
        /\ \A i \in 1..BLOCK : Block(msg, k)[i] = msg[BLOCK * (k - 1) + i]
    BY <2>1, <2>2, BlockIs
  <2>4. \A i \in 1..BLOCK : BLOCK * (k - 1) + i \in 1..Len(msg)
    BY <2>1, <2>2 DEF BLOCK
  <2> DEFINE x == Block(all, k)
             y == Block(msg, k)
  <2>5. \A i \in 1..BLOCK : all[BLOCK * (k - 1) + i] = msg[BLOCK * (k - 1) + i]
    BY <2>4
  <2>6. /\ x \in [1..BLOCK -> Byte] /\ y \in [1..BLOCK -> Byte]
        /\ \A i \in 1..BLOCK : x[i] = y[i]
    BY <2>3, <2>5
  <2> HIDE DEF x, y
  <2>7. x = y
    <3>1. x = [i \in 1..BLOCK |-> x[i]] /\ y = [i \in 1..BLOCK |-> y[i]]
      BY <2>6
    <3>2. \A i \in 1..BLOCK : x[i] = y[i]
      BY <2>6
    <3> QED BY <3>1, <3>2, Zenon
  <2> QED BY <2>7 DEF x, y
<1> HIDE DEF f, g, m
<1>5. Bad = {}
  <2> SUFFICES ASSUME Bad # {} PROVE FALSE
    OBVIOUS
  <2>1. Bad \in SUBSET Nat
    OBVIOUS
  <2>2. PICK j \in Bad : \A y \in Bad : j <= y
    <3> HIDE DEF Bad
    <3> QED BY <2>1, Least
  <2>3. j # 0
    BY <1>1, <1>2
  <2>4. j \in 1..n /\ j - 1 \in 0..n /\ j - 1 \notin Bad
    BY <2>2, <2>3
  <2>5. j \in 1..m
    <3>1. n \in Nat /\ m \in Nat /\ n <= m
      BY <1>1, <1>2, <1>3
    <3> QED BY <2>4, <3>1
  <2>6. f[j - 1] = g[j - 1]
    BY <2>4
  <2>7. f[j] = sha1_transform(f[j - 1], Block(msg, j)) /\ g[j] = sha1_transform(g[j - 1], Block(all, j))
    BY <1>1, <1>2, <2>4, <2>5
  <2>8. f[j] = g[j]
    BY <1>4, <2>4, <2>6, <2>7
  <2> QED BY <2>2, <2>8
<1>6. n \in 0..n
  BY <1>1
<1> QED BY <1>1, <1>5, <1>6 DEF f, g

LEMMA ZerosAre ==
    ASSUME NEW n \in Nat
    PROVE  Zeros(n) \in Seq(Byte) /\ Len(Zeros(n)) = n /\ \A i \in 1..n : Zeros(n)[i] = 0
<1>1. Zeros(n) \in [1..n -> Byte]
  BY DEF Zeros, Byte
<1>2. Zeros(n) \in Seq(Byte) /\ Len(Zeros(n)) = n
  BY <1>1
<1> QED BY <1>2 DEF Zeros

LEMMA BytesAre ==
    ASSUME NEW n \in Nat, NEW f \in [1..n -> Byte]
    PROVE  f \in Seq(Byte) /\ Len(f) = n
OBVIOUS

LEMMA LengthBytesAre ==
    ASSUME NEW bits \in Nat
    PROVE  LengthBytes(bits) \in Seq(Byte) /\ Len(LengthBytes(bits)) = 8
<1> DEFINE w == <<16777216, 65536, 256, 1>>
           low == [i \in 1..4 |-> (bits \div w[i]) % 256]
           high == Zeros(4)
<1>1. high \in Seq(Byte) /\ Len(high) = 4
  BY ZerosAre
<1>2. low \in Seq(Byte) /\ Len(low) = 4
  <2>1. ASSUME NEW i \in 1..4 PROVE (bits \div w[i]) % 256 \in Byte
    <3>1. w[i] \in {16777216, 65536, 256, 1}
      OBVIOUS
    <3> DEFINE x == w[i]
    <3> HIDE DEF x
    <3>2. x \in Nat \ {0}
      BY <3>1 DEF x
    <3>3. bits \div x \in Int
      BY <3>2
    <3>4. (bits \div x) % 256 \in Byte
      BY <3>3 DEF Byte
    <3> QED BY <3>4 DEF x
  <2> HIDE DEF w
  <2>2. low \in [1..4 -> Byte]
    BY <2>1
  <2> HIDE DEF low
  <2>3. 4 \in Nat
    OBVIOUS
  <2> QED BY <2>2, <2>3, BytesAre, Zenon
<1>3. LengthBytes(bits) = high \o low
  BY DEF LengthBytes
<1> HIDE DEF high, low
<1>4. high \in Seq(Byte) /\ low \in Seq(Byte)
  BY <1>1, <1>2
<1> DEFINE all == high \o low
<1>5. all \in Seq(Byte) /\ Len(all) = Len(high) + Len(low)
  BY <1>4
<1>6. Len(all) = 8
  BY <1>1, <1>2, <1>5
<1> HIDE DEF all
<1> QED BY <1>3, <1>5, <1>6 DEF all

(* Padded adds the least number of zeros. *)
IsPadded(all, msg, z) ==
    /\ all \in Seq(Byte) /\ Len(all) = Len(msg) + 9 + z
    /\ \A i \in 1..Len(msg) : all[i] = msg[i]
    /\ all[Len(msg) + 1] = 128
    /\ \A i \in 1..z : all[Len(msg) + 1 + i] = 0
    /\ \A i \in 1..8 : all[Len(msg) + 1 + z + i] = LengthBytes(8 * Len(msg))[i]

LEMMA PaddedIs ==
    ASSUME NEW msg \in Seq(Byte), NEW z \in 0..63, (Len(msg) + 9 + z) % 64 = 0
    PROVE  IsPadded(Padded(msg), msg, z)
<1> DEFINE L == Len(msg)
           m == <<128>>
           y == Zeros(z)
           t == LengthBytes(8 * L)
           x == CHOOSE k \in 0..BLOCK - 1 : (Len(msg) + 9 + k) % BLOCK = 0
           all == Padded(msg)
<1>1. L \in Nat
  OBVIOUS
<1>2. x = z
  <2>1. \A k \in 0..63 : (L + 9 + k) % 64 = 0 => k = z
    <3> HIDE DEF L
    <3> SUFFICES ASSUME NEW k \in 0..63, (L + 9 + k) % 64 = 0, (L + 9 + z) % 64 = 0 PROVE k = z
      BY DEF L
    <3> QED BY <1>1
  <2>2. z \in 0..BLOCK - 1 /\ (L + 9 + z) % BLOCK = 0
    BY DEF BLOCK
  <2>3. x \in 0..BLOCK - 1 /\ (L + 9 + x) % BLOCK = 0
    BY <2>2, Zenon
  <2> HIDE DEF x, L
  <2>4. x \in 0..63 /\ (L + 9 + x) % 64 = 0
    BY <2>3 DEF BLOCK
  <2> QED BY <2>1, <2>4
<1>3. all = msg \o m \o Zeros(x) \o t
  BY DEF Padded
<1> HIDE DEF x, all
<1>4. all = msg \o m \o y \o t
  BY <1>2, <1>3
<1>5. m \in Seq(Byte) /\ Len(m) = 1 /\ m[1] = 128
  BY DEF Byte
<1>6. y \in Seq(Byte) /\ Len(y) = z /\ \A i \in 1..z : y[i] = 0
  <2>1. z \in Nat
    OBVIOUS
  <2> QED BY <2>1, ZerosAre
<1>7. t \in Seq(Byte) /\ Len(t) = 8
  <2>1. 8 * L \in Nat
    BY <1>1
  <2> QED BY <2>1, LengthBytesAre
<1> HIDE DEF m, y, t
<1>8. /\ all \in Seq(Byte) /\ Len(all) = Len(msg) + Len(m) + Len(y) + Len(t)
      /\ \A i \in 1..Len(msg) : all[i] = msg[i]
      /\ \A i \in 1..Len(m) : all[Len(msg) + i] = m[i]
      /\ \A i \in 1..Len(y) : all[Len(msg) + Len(m) + i] = y[i]
      /\ \A i \in 1..Len(t) : all[Len(msg) + Len(m) + Len(y) + i] = t[i]
  <2>1. m \in Seq(Byte) /\ y \in Seq(Byte) /\ t \in Seq(Byte)
    BY <1>5, <1>6, <1>7
  <2> QED BY <1>4, <2>1, FourParts
<1>9. all \in Seq(Byte) /\ Len(all) = Len(msg) + 9 + z
  <2>1. Len(all) = L + 1 + z + 8
    BY <1>5, <1>6, <1>7, <1>8
  <2> HIDE DEF L
  <2>2. Len(all) = L + 9 + z
    BY <1>1, <2>1
  <2> QED BY <1>8, <2>2 DEF L
<1>10. all[Len(msg) + 1] = 128
  BY <1>5, <1>8
<1>11. \A i \in 1..z : all[Len(msg) + 1 + i] = 0
  <2>1. \A i \in 1..Len(y) : all[Len(msg) + Len(m) + i] = y[i]
    BY <1>8
  <2>2. Len(y) = z /\ Len(m) = 1 /\ \A i \in 1..z : y[i] = 0
    BY <1>5, <1>6
  <2> QED BY <2>1, <2>2, Zenon
<1>12. \A i \in 1..8 : all[Len(msg) + 1 + z + i] = t[i]
  BY <1>5, <1>6, <1>7, <1>8
<1>13. \A i \in 1..Len(msg) : all[i] = msg[i]
  BY <1>8
<1> QED BY <1>9, <1>10, <1>11, <1>12, <1>13, Zenon DEF t, L, all, IsPadded

(* sha1_update puts whole blocks through the transformation and keeps the  *)
(* rest.                                                                   *)
UpdateDone(ctx, msg, n, r) ==
    /\ n = Len(msg) \div BLOCK
    /\ ctx.h = Blocks(sha1_init.h, msg)[n] /\ ctx.len = 8 * Len(msg)
    /\ ctx.buf \in Seq(Byte) /\ Len(ctx.buf) = r
    /\ \A i \in 1..r : ctx.buf[i] = msg[64 * n + i]

LEMMA UpdateIs ==
    ASSUME NEW msg \in Seq(Byte), NEW n \in Nat, NEW r \in 0..63, Len(msg) = 64 * n + r
    PROVE  UpdateDone(sha1_update(sha1_init, msg), msg, n, r)
<1> DEFINE L == Len(msg)
           v == SubSeq(msg, BLOCK * n + 1, L)
           ctx == sha1_update(sha1_init, msg)
<1>1. L \in Nat /\ n = L \div BLOCK
  <2>1. (64 * n + r) \div 64 = n
    OBVIOUS
  <2> QED BY <2>1 DEF BLOCK
<1>2. <<>> \o msg = msg
  OBVIOUS
<1>3. ctx.h = Blocks(sha1_init.h, msg)[n] /\ ctx.len = 8 * L /\ ctx.buf = v
  <2>1. sha1_init.buf = <<>> /\ sha1_init.len = 0
    BY DEF sha1_init
  <2> DEFINE eight == 8 * L
  <2>0. 0 + eight = eight
    BY <1>1
  <2> DEFINE hash == Blocks(sha1_init.h, msg)[n]
  <2>2. ctx = [h |-> hash, len |-> eight, buf |-> v]
    <3> DEFINE b == sha1_init.buf \o msg
    <3>1. b = msg
      BY <1>2, <2>1
    <3>2. ctx = [h |-> Blocks(sha1_init.h, b)[Len(b) \div BLOCK], len |-> sha1_init.len + 8 * Len(msg),
                 buf |-> SubSeq(b, BLOCK * (Len(b) \div BLOCK) + 1, Len(b))]
      BY Zenon DEF sha1_update
    <3>3. ctx = [h |-> Blocks(sha1_init.h, msg)[Len(msg) \div BLOCK], len |-> 0 + 8 * Len(msg),
                 buf |-> SubSeq(msg, BLOCK * (Len(msg) \div BLOCK) + 1, Len(msg))]
      BY <2>1, <3>1, <3>2, Zenon
    <3> QED BY <1>1, <2>0, <3>3, Zenon
  <2> HIDE DEF hash, eight, v
  <2>3. ctx.h = hash /\ ctx.len = eight /\ ctx.buf = v
    BY <2>2
  <2> QED BY <2>3, Zenon DEF hash, eight
<1>4. v \in Seq(Byte) /\ Len(v) = r /\ \A i \in 1..r : v[i] = msg[64 * n + i]
  <2>1. BLOCK * n = 64 * n /\ 64 * n \in Nat /\ L = 64 * n + r
    BY DEF BLOCK
  <2> DEFINE s == 64 * n
  <2> HIDE DEF L, v
  <2>2. v = SubSeq(msg, s + 1, L)
    BY <2>1 DEF v
  <2> HIDE DEF s
  <2>3. s \in Nat /\ L = s + r
    BY <2>1 DEF s
  <2>4. s + 1 \in Int /\ L \in Int /\ \A i \in s + 1..L : msg[i] \in Byte
    BY <2>3 DEF L
  <2>5. /\ v \in Seq(Byte) /\ Len(v) = (IF s + 1 <= L THEN L - (s + 1) + 1 ELSE 0)
        /\ \A i \in 1..L - (s + 1) + 1 : v[i] = msg[(s + 1) + i - 1]
    BY <2>2, <2>4, SubSeqProperties
  <2>6. L - (s + 1) + 1 = r /\ (s + 1 <= L \/ r = 0) /\ \A i \in 1..r : (s + 1) + i - 1 = s + i
    BY <2>3
  <2>7. Len(v) = r
    BY <2>3, <2>5, <2>6
  <2>8. ASSUME NEW i \in 1..r PROVE v[i] = msg[s + i]
    <3>1. v[i] = msg[(s + 1) + i - 1]
      BY <2>5, <2>6
    <3> QED BY <2>6, <3>1
  <2> QED BY <2>5, <2>7, <2>8 DEF s
<1> HIDE DEF ctx, v
<1> QED BY <1>1, <1>3, <1>4, Zenon DEF UpdateDone, ctx, L

(* Block k of a message that agrees with 64 bytes. *)
LEMMA BlockHas ==
    ASSUME NEW bytes \in Seq(Byte), NEW k \in Nat \ {0}, 64 * k <= Len(bytes)
    PROVE  Block(bytes, k) \in [1..64 -> Byte] /\ \A i \in 1..64 : Block(bytes, k)[i] = bytes[64 * (k - 1) + i]
<1>1. BLOCK = 64
  BY DEF BLOCK
<1>2. BLOCK * k <= Len(bytes)
  BY <1>1
<1>3. /\ Block(bytes, k) \in [1..BLOCK -> Byte]
      /\ \A i \in 1..BLOCK : Block(bytes, k)[i] = bytes[BLOCK * (k - 1) + i]
  BY <1>2, BlockIs
<1> QED BY <1>1, <1>3, Zenon

(* The sequence x stands in bytes behind its first base bytes. *)
At(bytes, base, x) == \A i \in 1..Len(x) : bytes[base + i] = x[i]

LEMMA AtBoth ==
    ASSUME NEW bytes, NEW base \in Nat, NEW a \in Seq(Byte), NEW b \in Seq(Byte),
           At(bytes, base, a), At(bytes, base + Len(a), b)
    PROVE  At(bytes, base, a \o b)
<1> DEFINE s == a \o b
<1>1. /\ s \in Seq(Byte) /\ Len(s) = Len(a) + Len(b)
      /\ \A i \in 1..Len(a) : s[i] = a[i]
      /\ \A i \in 1..Len(b) : s[Len(a) + i] = b[i]
  BY TwoParts
<1> HIDE DEF s
<1> SUFFICES ASSUME NEW i \in 1..Len(s) PROVE bytes[base + i] = s[i]
  BY DEF s, At
<1>2. Len(a) \in Nat /\ Len(b) \in Nat
  OBVIOUS
<1>3. CASE i \in 1..Len(a)
  BY <1>1, <1>3 DEF At
<1>4. CASE i \in Len(a) + 1..Len(a) + Len(b)
  <2> DEFINE j == i - Len(a)
  <2>1. j \in 1..Len(b) /\ i = Len(a) + j /\ base + i = (base + Len(a)) + j
    BY <1>2, <1>4
  <2> HIDE DEF j
  <2>2. s[Len(a) + j] = b[j]
    BY <1>1, <2>1
  <2>3. bytes[(base + Len(a)) + j] = b[j]
    BY <2>1 DEF At
  <2> QED BY <2>1, <2>2, <2>3
<1> QED BY <1>1, <1>2, <1>3, <1>4

LEMMA AtZeros ==
    ASSUME NEW bytes, NEW base \in Nat, NEW a \in Nat, NEW b \in Nat, At(bytes, base, Zeros(a + b))
    PROVE  At(bytes, base, Zeros(a)) /\ At(bytes, base + a, Zeros(b))
<1>1. /\ Len(Zeros(a)) = a /\ \A i \in 1..a : Zeros(a)[i] = 0
      /\ Len(Zeros(b)) = b /\ \A i \in 1..b : Zeros(b)[i] = 0
  BY ZerosAre
<1>2. Len(Zeros(a + b)) = a + b /\ \A i \in 1..a + b : Zeros(a + b)[i] = 0
  <2>1. a + b \in Nat
    OBVIOUS
  <2> QED BY <2>1, ZerosAre
<1>3. \A i \in 1..a + b : bytes[base + i] = 0
  BY <1>2 DEF At
<1>4. \A i \in 1..a : bytes[base + i] = 0
  BY <1>3
<1>5. ASSUME NEW i \in 1..b PROVE bytes[(base + a) + i] = 0
  <2>1. a + i \in 1..a + b /\ (base + a) + i = base + (a + i)
    OBVIOUS
  <2> QED BY <1>3, <2>1
<1> QED BY <1>1, <1>4, <1>5 DEF At

LEMMA BlockIsThis ==
    ASSUME NEW bytes \in Seq(Byte), NEW k \in Nat \ {0}, NEW x \in Seq(Byte), Len(x) = 64,
           64 * k <= Len(bytes), At(bytes, 64 * (k - 1), x)
    PROVE  Block(bytes, k) = x
<1> DEFINE y == Block(bytes, k)
<1>1. y \in [1..64 -> Byte] /\ \A i \in 1..64 : y[i] = bytes[64 * (k - 1) + i]
  BY BlockHas
<1> HIDE DEF y
<1>2. x \in [1..64 -> Byte]
  BY LenProperties
<1>3. \A i \in 1..64 : y[i] = x[i]
  BY <1>1 DEF At
<1>4. x = [i \in 1..64 |-> x[i]] /\ y = [i \in 1..64 |-> y[i]]
  BY <1>1, <1>2
<1>5. y = x
  BY <1>3, <1>4, Zenon
<1> QED BY <1>5 DEF y

(* Where the parts of the padded message stand. *)
LEMMA PaddedHas ==
    ASSUME NEW msg \in Seq(Byte), NEW z \in 0..63, (Len(msg) + 9 + z) % 64 = 0
    PROVE  /\ Padded(msg) \in Seq(Byte) /\ Len(Padded(msg)) = Len(msg) + 9 + z
           /\ At(Padded(msg), 0, msg) /\ At(Padded(msg), Len(msg), <<128>>)
           /\ At(Padded(msg), Len(msg) + 1, Zeros(z))
           /\ At(Padded(msg), Len(msg) + 1 + z, LengthBytes(8 * Len(msg)))
<1> DEFINE all == Padded(msg)
<1>0. all = Padded(msg)
  OBVIOUS
<1> HIDE DEF all
<1>1. /\ all \in Seq(Byte) /\ Len(all) = Len(msg) + 9 + z
      /\ \A i \in 1..Len(msg) : all[i] = msg[i]
      /\ all[Len(msg) + 1] = 128
      /\ \A i \in 1..z : all[Len(msg) + 1 + i] = 0
      /\ \A i \in 1..8 : all[Len(msg) + 1 + z + i] = LengthBytes(8 * Len(msg))[i]
  <2>1. IsPadded(all, msg, z)
    BY <1>0, PaddedIs, Zenon
  <2> QED BY <2>1 DEF IsPadded
<1>2. At(all, 0, msg)
  <2>1. \A i \in 1..Len(msg) : 0 + i = i
    OBVIOUS
  <2> QED BY <1>1, <2>1 DEF At
<1>3. At(all, Len(msg), <<128>>)
  BY <1>1 DEF At
<1>4. At(all, Len(msg) + 1, Zeros(z))
  <2>1. Len(Zeros(z)) = z /\ \A i \in 1..z : Zeros(z)[i] = 0
    <3>1. z \in Nat
      OBVIOUS
    <3> QED BY <3>1, ZerosAre
  <2>2. \A i \in 1..z : all[Len(msg) + 1 + i] = 0
    BY <1>1
  <2>3. \A i \in 1..z : all[Len(msg) + 1 + i] = Zeros(z)[i]
    BY <2>1, <2>2, Zenon
  <2>4. Len(Zeros(z)) = z
    BY <2>1
  <2> QED BY <2>3, <2>4, Zenon DEF At
<1>5. At(all, Len(msg) + 1 + z, LengthBytes(8 * Len(msg)))
  <2>1. Len(LengthBytes(8 * Len(msg))) = 8
    <3>1. 8 * Len(msg) \in Nat
      OBVIOUS
    <3> QED BY <3>1, LengthBytesAre
  <2> QED BY <1>1, <2>1 DEF At
<1> QED BY <1>0, <1>1, <1>2, <1>3, <1>4, <1>5, Zenon

(* sha1_final with what is left of the msg. *)
Final(h, len, buf, r) ==
    IF r <= 55
    THEN sha1_transform(h, (buf \o <<128>>) \o Zeros(55 - r) \o LengthBytes(len))
    ELSE sha1_transform(sha1_transform(h, (buf \o <<128>>) \o Zeros(63 - r)),
                        <<>> \o Zeros(56) \o LengthBytes(len))

LEMMA FinalIs ==
    ASSUME NEW h, NEW buf \in Seq(Byte), NEW len, NEW r \in 0..63, Len(buf) = r
    PROVE  sha1_final([h |-> h, len |-> len, buf |-> buf]) = Final(h, len, buf, r)
<1> DEFINE ctx == [h |-> h, len |-> len, buf |-> buf]
           m == buf \o <<128>>
           y == sha1_final(ctx)
<1>1. Append(buf, 128) = m /\ Len(m) = r + 1 /\ Len(<<>>) = 0
  OBVIOUS
<1>2. ctx.h = h /\ ctx.len = len /\ ctx.buf = buf
  OBVIOUS
<1>3. BLOCK = 64
  BY DEF BLOCK
<1>4. sha1_final(ctx) =
         LET fits == Len(m) <= 64 - 8
             g    == IF fits THEN h ELSE sha1_transform(h, m \o Zeros(64 - Len(m)))
             last == IF fits THEN m ELSE <<>>
         IN  sha1_transform(g, last \o Zeros(64 - 8 - Len(last)) \o LengthBytes(len))
  <2> DEFINE F(a, b, p) ==
                 LET fits == Len(p) <= BLOCK - 8
                     g    == IF fits THEN a ELSE sha1_transform(a, p \o Zeros(BLOCK - Len(p)))
                     last == IF fits THEN p ELSE <<>>
                 IN  sha1_transform(g, last \o Zeros(BLOCK - 8 - Len(last)) \o LengthBytes(b))
  <2>1. sha1_final(ctx) = F(ctx.h, ctx.len, Append(ctx.buf, 128))
    BY Zenon DEF sha1_final
  <2>2. F(ctx.h, ctx.len, Append(ctx.buf, 128)) = F(h, len, m)
    <3> HIDE DEF F
    <3> QED BY <1>1, <1>2, Zenon
  <2>3. F(h, len, m) =
           LET fits == Len(m) <= 64 - 8
               g    == IF fits THEN h ELSE sha1_transform(h, m \o Zeros(64 - Len(m)))
               last == IF fits THEN m ELSE <<>>
           IN  sha1_transform(g, last \o Zeros(64 - 8 - Len(last)) \o LengthBytes(len))
    <3> HIDE DEF m
    <3> QED BY <1>3, Zenon
  <2> HIDE DEF F
  <2> QED BY <2>1, <2>2, <2>3, Zenon
<1> HIDE DEF ctx, m
<1>5. CASE r <= 55
  <2>1. Len(m) <= 64 - 8 /\ 64 - 8 - Len(m) = 55 - r
    BY <1>1, <1>5
  <2>2. sha1_final(ctx) = sha1_transform(h, m \o Zeros(64 - 8 - Len(m)) \o LengthBytes(len))
    BY <1>4, <2>1, Zenon
  <2> QED BY <1>5, <2>1, <2>2, Zenon DEF ctx, m, Final
<1>6. CASE ~ (r <= 55)
  <2>1. ~ (Len(m) <= 64 - 8) /\ 64 - Len(m) = 63 - r /\ 64 - 8 - 0 = 56
    BY <1>1, <1>6
  <2>2. sha1_final(ctx) = sha1_transform(sha1_transform(h, m \o Zeros(64 - Len(m))),
                                         <<>> \o Zeros(64 - 8 - Len(<<>>)) \o LengthBytes(len))
    BY <1>4, <2>1, Zenon
  <2> QED BY <1>1, <1>6, <2>1, <2>2, Zenon DEF ctx, m, Final
<1> QED BY <1>5, <1>6

(* sha1_update and sha1_final together are SHA-1. *)
LEMMA HashRight ==
    ASSUME Transforms, NEW msg \in Seq(Byte)
    PROVE  /\ sha1_final(sha1_update(sha1_init, msg)) = Sha1(msg)
           /\ Sha1(msg) \in Digest
<1> DEFINE L == Len(msg)
           n == L \div 64
           r == L % 64
           ctx == sha1_update(sha1_init, msg)
           all == Padded(msg)
           h0 == sha1_init.h
           t == LengthBytes(8 * L)
           f == Blocks(h0, all)
           buf == ctx.buf
           m == buf \o <<128>>
<1>1. L \in Nat /\ n \in Nat /\ r \in 0..63 /\ L = 64 * n + r
  <2>1. L \in Nat
    OBVIOUS
  <2> HIDE DEF L
  <2> QED BY <2>1
<1>2. /\ n = Len(msg) \div BLOCK
      /\ ctx.h = Blocks(h0, msg)[n] /\ ctx.len = 8 * L
      /\ buf \in Seq(Byte) /\ Len(buf) = r
      /\ \A i \in 1..r : buf[i] = msg[64 * n + i]
  <2> HIDE DEF n, r, ctx, buf
  <2>1. UpdateDone(ctx, msg, n, r)
    <3>1. n \in Nat /\ r \in 0..63 /\ Len(msg) = 64 * n + r
      BY <1>1
    <3> QED BY <3>1, UpdateIs, Zenon DEF ctx
  <2> QED BY <2>1, Zenon DEF UpdateDone, buf, h0
<1>3. ctx = [h |-> ctx.h, len |-> 8 * L, buf |-> buf]
  <2>1. ctx = [h |-> ctx.h, len |-> ctx.len, buf |-> ctx.buf]
    BY DEF sha1_update
  <2> QED BY <1>2, <2>1
<1>4. h0 \in Digest
  BY DEF sha1_init, Digest, Byte
<1>5. t \in Seq(Byte) /\ Len(t) = 8
  <2>1. 8 * L \in Nat
    BY <1>1
  <2> QED BY <2>1, LengthBytesAre
<1>6. <<128>> \in Seq(Byte) /\ Len(<<128>>) = 1 /\ m \in Seq(Byte) /\ Len(m) = r + 1
  <2>1. <<128>> \in Seq(Byte) /\ Len(<<128>>) = 1
    BY DEF Byte
  <2> HIDE DEF ctx, r
  <2> QED BY <1>1, <1>2, <2>1
<1> HIDE DEF L, n, r, ctx, all, h0, t, f, buf, m
<1>7. ASSUME NEW k \in Nat, k = Len(all) \div BLOCK, all \in Seq(Byte), L <= Len(all), At(all, 0, msg)
      PROVE  /\ Sha1(msg) = f[k] /\ f[k] \in Digest
             /\ \A j \in 1..k : f[j] = sha1_transform(f[j - 1], Block(all, j))
             /\ f[n] = ctx.h
  <2>1. Sha1(msg) = f[k]
    BY <1>7 DEF Sha1, f, all, h0
  <2>2. /\ f[0] = h0
        /\ \A j \in 1..k : f[j] = sha1_transform(f[j - 1], Block(all, j))
    BY <1>7, BlocksAre DEF f
  <2>3. f[k] \in Digest
    <3>1. \A j \in 0..k : Blocks(h0, all)[j] \in Digest
      BY <1>4, <1>7, BlocksTyped
    <3>2. k \in 0..k
      BY <1>7
    <3> QED BY <3>1, <3>2, Zenon DEF f
  <2>4. f[n] = Blocks(h0, msg)[n]
    <3>1. \A i \in 1..Len(msg) : all[i] = msg[i]
      BY <1>7 DEF At
    <3>2. Len(msg) <= Len(all)
      BY <1>7 DEF L
    <3>3. n = Len(msg) \div BLOCK /\ all \in Seq(Byte)
      BY <1>2, <1>7
    <3> QED BY <3>1, <3>2, <3>3, BlocksOfPrefix, Zenon DEF f
  <2> QED BY <1>2, <2>1, <2>2, <2>3, <2>4, Zenon
<1>8. ASSUME At(all, 0, msg) PROVE At(all, 64 * n, buf)
  <2>1. \A i \in 1..Len(msg) : all[i] = msg[i]
    BY <1>8 DEF At
  <2>2. \A i \in 1..r : 64 * n + i \in 1..Len(msg)
    BY <1>1 DEF L
  <2>3. \A i \in 1..r : all[64 * n + i] = buf[i]
    BY <1>2, <2>1, <2>2, Zenon
  <2> QED BY <1>2, <2>3, Zenon DEF At
<1>9. sha1_final(ctx) = IF r <= 55 THEN sha1_transform(ctx.h, m \o Zeros(55 - r) \o t)
                        ELSE sha1_transform(sha1_transform(ctx.h, m \o Zeros(63 - r)), <<>> \o Zeros(56) \o t)
  <2>1. sha1_final([h |-> ctx.h, len |-> 8 * L, buf |-> buf]) = Final(ctx.h, 8 * L, buf, r)
    <3>1. r \in 0..63 /\ buf \in Seq(Byte) /\ Len(buf) = r
      BY <1>1, <1>2
    <3> QED BY <3>1, FinalIs, Zenon
  <2>2. sha1_final(ctx) = Final(ctx.h, 8 * L, buf, r)
    BY <1>3, <2>1, Zenon
  <2>3. Final(ctx.h, 8 * L, buf, r) =
            IF r <= 55 THEN sha1_transform(ctx.h, m \o Zeros(55 - r) \o t)
            ELSE sha1_transform(sha1_transform(ctx.h, m \o Zeros(63 - r)), <<>> \o Zeros(56) \o t)
    BY Zenon DEF Final, m, t
  <2> QED BY <2>2, <2>3, Zenon
<1>10. CASE r <= 55
  <2> DEFINE z == 55 - r
             x == m \o Zeros(z) \o t
  <2>1. z \in 0..63 /\ (L + 9 + z) % 64 = 0 /\ L + 9 + z = 64 * (n + 1)
    BY <1>1, <1>10
  <2> HIDE DEF z
  <2>2. /\ all \in Seq(Byte) /\ Len(all) = L + 9 + z
        /\ At(all, 0, msg) /\ At(all, L, <<128>>)
        /\ At(all, L + 1, Zeros(z)) /\ At(all, L + 1 + z, t)
    BY <2>1, PaddedHas, Zenon DEF L, all, t
  <2>3. n + 1 \in Nat /\ n + 1 = Len(all) \div BLOCK /\ L <= Len(all) /\ n + 1 \in 1..n + 1 /\ (n + 1) - 1 = n
    BY <1>1, <2>1, <2>2 DEF BLOCK
  <2>4. /\ Sha1(msg) = f[n + 1] /\ f[n + 1] \in Digest
        /\ \A j \in 1..n + 1 : f[j] = sha1_transform(f[j - 1], Block(all, j))
        /\ f[n] = ctx.h
    BY <1>7, <2>2, <2>3, Zenon
  <2>5. f[n + 1] = sha1_transform(ctx.h, Block(all, n + 1))
    <3>1. f[n + 1] = sha1_transform(f[(n + 1) - 1], Block(all, n + 1))
      BY <2>3, <2>4, Zenon
    <3> QED BY <2>3, <2>4, <3>1, Zenon
  <2>6. At(all, 64 * n, x) /\ x \in Seq(Byte) /\ Len(x) = 64
    <3>1. Zeros(z) \in Seq(Byte) /\ Len(Zeros(z)) = z
      <4>1. z \in Nat
        BY <2>1
      <4> QED BY <4>1, ZerosAre
    <3>2. 64 * n \in Nat /\ 64 * n + r = L /\ 64 * n + (r + 1) = L + 1
      BY <1>1
    <3>3. At(all, 64 * n, m)
      <4>1. At(all, 64 * n, buf)
        BY <1>8, <2>2
      <4>2. At(all, 64 * n + Len(buf), <<128>>)
        BY <1>2, <2>2, <3>2
      <4> QED BY <1>2, <1>6, <3>2, <4>1, <4>2, AtBoth, Zenon DEF m
    <3> DEFINE y == m \o Zeros(z)
    <3>4. y \in Seq(Byte) /\ Len(y) = r + 1 + z
      BY <1>1, <1>6, <2>1, <3>1
    <3>5. At(all, 64 * n, y)
      <4>1. At(all, 64 * n + Len(m), Zeros(z))
        BY <1>6, <2>2, <3>2
      <4> QED BY <1>6, <3>1, <3>2, <3>3, <4>1, AtBoth, Zenon
    <3> HIDE DEF y
    <3>6. x = y \o t
      BY DEF y
    <3> HIDE DEF x
    <3>7. 64 * n + Len(y) = L + 1 + z
      BY <1>1, <2>1, <3>4
    <3>8. At(all, 64 * n, y \o t)
      <4>1. At(all, 64 * n + Len(y), t)
        BY <2>2, <3>7
      <4> QED BY <1>5, <3>2, <3>4, <3>5, <4>1, AtBoth, Zenon
    <3>9. x \in Seq(Byte) /\ Len(x) = r + 1 + z + 8
      <4>1. x \in Seq(Byte) /\ Len(x) = Len(y) + Len(t)
        <5>1. y \in Seq(Byte) /\ t \in Seq(Byte)
          BY <1>5, <3>4
        <5> QED BY <3>6, <5>1, BytesJoined, Zenon
      <4> QED BY <1>5, <3>4, <4>1
    <3>10. r + 1 + z + 8 = 64
      BY <1>1 DEF z
    <3> QED BY <3>6, <3>8, <3>9, <3>10, Zenon
  <2> HIDE DEF x
  <2>7. Block(all, n + 1) = x
    <3>1. n + 1 \in Nat \ {0} /\ 64 * (n + 1) <= Len(all) /\ 64 * ((n + 1) - 1) = 64 * n
      BY <1>1, <2>1, <2>2
    <3>2. At(all, 64 * ((n + 1) - 1), x)
      BY <2>6, <3>1
    <3> QED BY <2>2, <2>6, <3>1, <3>2, BlockIsThis, Zenon
  <2>8. sha1_final(ctx) = sha1_transform(ctx.h, x)
    BY <1>9, <1>10, Zenon DEF x, z
  <2> QED BY <2>4, <2>5, <2>7, <2>8, Zenon DEF ctx
<1>11. CASE ~ (r <= 55)
  <2> DEFINE z == 119 - r
             p == 63 - r
             x == m \o Zeros(p)
             y == Zeros(56) \o t
  <2>1. /\ z \in 0..63 /\ p \in Nat /\ z = p + 56
        /\ (L + 9 + z) % 64 = 0 /\ L + 9 + z = 64 * (n + 2)
    BY <1>1, <1>11
  <2> HIDE DEF z, p
  <2>2. /\ all \in Seq(Byte) /\ Len(all) = L + 9 + z
        /\ At(all, 0, msg) /\ At(all, L, <<128>>)
        /\ At(all, L + 1, Zeros(z)) /\ At(all, L + 1 + z, t)
    BY <2>1, PaddedHas, Zenon DEF L, all, t
  <2>3. /\ n + 2 \in Nat /\ n + 2 = Len(all) \div BLOCK /\ L <= Len(all)
        /\ n + 1 \in 1..n + 2 /\ (n + 1) - 1 = n /\ n + 2 \in 1..n + 2 /\ (n + 2) - 1 = n + 1
    BY <1>1, <2>1, <2>2 DEF BLOCK
  <2>4. /\ Sha1(msg) = f[n + 2] /\ f[n + 2] \in Digest
        /\ \A j \in 1..n + 2 : f[j] = sha1_transform(f[j - 1], Block(all, j))
        /\ f[n] = ctx.h
    BY <1>7, <2>2, <2>3, Zenon
  <2>5. f[n + 2] = sha1_transform(sha1_transform(ctx.h, Block(all, n + 1)), Block(all, n + 2))
    <3>1. f[n + 1] = sha1_transform(f[(n + 1) - 1], Block(all, n + 1))
      BY <2>3, <2>4, Zenon
    <3>2. f[n + 2] = sha1_transform(f[(n + 2) - 1], Block(all, n + 2))
      BY <2>3, <2>4, Zenon
    <3> QED BY <2>3, <2>4, <3>1, <3>2, Zenon
  <2>6. At(all, L + 1, Zeros(p)) /\ At(all, (L + 1) + p, Zeros(56))
    <3>1. L + 1 \in Nat /\ p \in Nat /\ 56 \in Nat
      BY <1>1, <2>1
    <3>2. At(all, L + 1, Zeros(p + 56))
      BY <2>1, <2>2, Zenon
    <3> QED BY <3>1, <3>2, AtZeros, Zenon
  <2>7. 64 * n \in Nat /\ 64 * n + r = L /\ 64 * n + (r + 1) = L + 1
    BY <1>1
  <2>8. At(all, 64 * n, x) /\ x \in Seq(Byte) /\ Len(x) = 64
    <3>1. Zeros(p) \in Seq(Byte) /\ Len(Zeros(p)) = p
      BY <2>1, ZerosAre
    <3>2. At(all, 64 * n, m)
      <4>1. At(all, 64 * n, buf)
        BY <1>8, <2>2
      <4>2. At(all, 64 * n + Len(buf), <<128>>)
        BY <1>2, <2>2, <2>7
      <4> QED BY <1>2, <1>6, <2>7, <4>1, <4>2, AtBoth, Zenon DEF m
    <3>3. At(all, 64 * n + Len(m), Zeros(p))
      BY <1>6, <2>6, <2>7
    <3>4. At(all, 64 * n, x)
      BY <1>6, <2>7, <3>1, <3>2, <3>3, AtBoth, Zenon
    <3>5. x \in Seq(Byte) /\ Len(x) = Len(m) + Len(Zeros(p))
      BY <1>6, <3>1, BytesJoined, Zenon
    <3>6. Len(m) + Len(Zeros(p)) = 64
      <4>1. Len(m) = r + 1 /\ Len(Zeros(p)) = p
        BY <1>6, <3>1
      <4> QED BY <1>1, <4>1 DEF p
    <3> QED BY <3>4, <3>5, <3>6
  <2>9. At(all, 64 * (n + 1), y) /\ y \in Seq(Byte) /\ Len(y) = 64
    <3>1. Zeros(56) \in Seq(Byte) /\ Len(Zeros(56)) = 56
      <4>1. 56 \in Nat
        OBVIOUS
      <4> QED BY <4>1, ZerosAre
    <3>2. 64 * (n + 1) \in Nat /\ 64 * (n + 1) = (L + 1) + p /\ 64 * (n + 1) + 56 = L + 1 + z
      <4>1. p = 63 - r
        BY DEF p
      <4> QED BY <1>1, <2>1, <4>1
    <3>3. At(all, 64 * (n + 1), Zeros(56))
      BY <2>6, <3>2
    <3>4. At(all, 64 * (n + 1) + Len(Zeros(56)), t)
      BY <2>2, <3>1, <3>2
    <3>5. At(all, 64 * (n + 1), y)
      BY <1>5, <3>1, <3>2, <3>3, <3>4, AtBoth, Zenon
    <3>6. y \in Seq(Byte) /\ Len(y) = Len(Zeros(56)) + Len(t)
      BY <1>5, <3>1, BytesJoined, Zenon
    <3>7. Len(Zeros(56)) + Len(t) = 64
      <4>1. Len(Zeros(56)) = 56 /\ Len(t) = 8
        BY <1>5, <3>1
      <4>2. 56 + 8 = 64
        OBVIOUS
      <4> QED BY <4>1, <4>2, Zenon
    <3> QED BY <3>5, <3>6, <3>7
  <2>10. <<>> \o Zeros(56) \o t = y
    <3>1. Zeros(56) \in Seq(Byte)
      <4>1. 56 \in Nat
        OBVIOUS
      <4> QED BY <4>1, ZerosAre
    <3> DEFINE o == Zeros(56)
    <3> HIDE DEF o
    <3>2. <<>> \o o = o
      BY <3>1 DEF o
    <3> QED BY <3>2, Zenon DEF o
  <2> HIDE DEF x, y
  <2>11. Block(all, n + 1) = x
    <3>1. n + 1 \in Nat \ {0} /\ 64 * (n + 1) <= Len(all) /\ 64 * ((n + 1) - 1) = 64 * n
      BY <1>1, <2>1, <2>2
    <3>2. At(all, 64 * ((n + 1) - 1), x)
      BY <2>8, <3>1
    <3> QED BY <2>2, <2>8, <3>1, <3>2, BlockIsThis, Zenon
  <2>12. Block(all, n + 2) = y
    <3>1. n + 2 \in Nat \ {0} /\ 64 * (n + 2) <= Len(all) /\ 64 * ((n + 2) - 1) = 64 * (n + 1)
      BY <1>1, <2>1, <2>2
    <3>2. At(all, 64 * ((n + 2) - 1), y)
      BY <2>9, <3>1
    <3> QED BY <2>2, <2>9, <3>1, <3>2, BlockIsThis, Zenon
  <2>13. sha1_final(ctx) = sha1_transform(sha1_transform(ctx.h, x), y)
    <3>1. sha1_final(ctx) = sha1_transform(sha1_transform(ctx.h, x), <<>> \o Zeros(56) \o t)
      BY <1>9, <1>11, Zenon DEF x, p
    <3> QED BY <2>10, <3>1
  <2> QED BY <2>4, <2>5, <2>11, <2>12, <2>13, Zenon DEF ctx
<1> QED BY <1>10, <1>11

LEMMA DigestIs ==
    ASSUME NEW h \in Digest
    PROVE  h \in Seq(Byte) /\ Len(h) = 20
<1>1. 20 \in Nat
  OBVIOUS
<1> QED BY <1>1, BytesAre, Zenon DEF Digest

-----------------------------------------------------------------------------
(* The handshake.                                                          *)

Accepted(p) == p.accept # NULL => IsBase64Of(p.accept, Sha1(p.key \o WS_GUID))

HandshakeInv == IsPeer(peer) /\ Accepted(peer)

(* What answers a request is the base 64 of the hash of its key.           *)
LEMMA AnswerIs ==
    ASSUME Transforms, NEW r \in Requests, process_handshake(r) # NULL
    PROVE  IsBase64Of(process_handshake(r), Sha1(r.key \o WS_GUID))
<1> DEFINE key == r.key
           msg == key \o WS_GUID
           room == CONCAT_KEY - Len(WS_GUID) - 1
<1>1. process_handshake(r) = create_key_accept(r) /\ get_key(r) = key /\ key # NULL
  <2>1. process_handshake(r) = create_key_accept(r) /\ create_key_accept(r) # NULL
    BY Zenon DEF process_handshake
  <2>2. get_key(r) # NULL
    BY <2>1, Zenon DEF create_key_accept
  <2> QED BY <2>1, <2>2, Zenon DEF get_key
<1>2. key \in Seq(Byte) /\ Len(key) + Len(WS_GUID) < CONCAT_KEY
  BY <1>1, RequestsAssumption
<1>3. WS_GUID \in Seq(Byte) /\ Len(WS_GUID) \in Nat
  BY DEF WS_GUID, Byte
<1> HIDE DEF key
<1>4. SubSeq(key, 1, IF Len(key) < room THEN Len(key) ELSE room) = key
  <2>1. Len(key) \in Nat /\ SubSeq(key, 1, Len(key)) = key
    BY <1>2
  <2>2. Len(key) < room \/ Len(key) = room
    <3> DEFINE a == Len(key)
               b == Len(WS_GUID)
    <3>1. a \in Nat /\ b \in Nat /\ a + b < 128
      BY <1>2, <1>3, <2>1 DEF CONCAT_KEY
    <3> HIDE DEF a, b
    <3>2. a < 128 - b - 1 \/ a = 128 - b - 1
      BY <3>1
    <3> QED BY <3>2 DEF CONCAT_KEY, a, b
  <2> HIDE DEF room
  <2> QED BY <2>1, <2>2, Zenon
<1>5. msg \in Seq(Byte)
  BY <1>2, <1>3, BytesJoined, Zenon
<1>6. create_key_accept(r) = base64_encode(sha1_final(sha1_update(sha1_init, msg)))
  BY <1>1, <1>4, Zenon DEF create_key_accept
<1> HIDE DEF msg
<1>7. sha1_final(sha1_update(sha1_init, msg)) = Sha1(msg) /\ Sha1(msg) \in Seq(Byte)
  BY <1>5, HashRight, DigestIs, Zenon
<1>8. IsBase64Of(base64_encode(Sha1(msg)), Sha1(msg))
  BY <1>7, Encoded, Zenon
<1> QED BY <1>1, <1>6, <1>7, <1>8, Zenon DEF msg, key

LEMMA AnswerFields ==
    ASSUME NEW p, IsPeer(p), NEW x
    PROVE  /\ [p EXCEPT !.stream = x].key = p.key /\ [p EXCEPT !.stream = x].accept = p.accept
           /\ [p EXCEPT !.cut = x].key = p.key /\ [p EXCEPT !.cut = x].accept = p.accept
           /\ [p EXCEPT !.frames = x].key = p.key /\ [p EXCEPT !.frames = x].accept = p.accept
           /\ [p EXCEPT !.key = x].key = x
           /\ [p EXCEPT !.accept = x].key = p.key /\ [p EXCEPT !.accept = x].accept = x
<1>1. DOMAIN p = {"key", "accept", "frames", "stream", "cut"}
  BY DEF IsPeer
<1> QED BY <1>1

(* What is received and sent after the handshake leaves it alone. *)
Keeps(p, x) == IsPeer(x) /\ x.key = p.key /\ x.accept = p.accept

LEMMA SentKeeps ==
    ASSUME NEW p, IsPeer(p), NEW u, NEW x \in Sent(p, u)
    PROVE  Keeps(p, x)
<1> DEFINE y == p.stream \o u
<1>1. x = p \/ x = [p EXCEPT !.stream = y]
  BY DEF Sent
<1> HIDE DEF y
<1>2. Keeps(p, [p EXCEPT !.stream = y])
  <2>1. IsPeer([p EXCEPT !.stream = y])
    BY PeerFields
  <2>2. [p EXCEPT !.stream = y].key = p.key /\ [p EXCEPT !.stream = y].accept = p.accept
    BY AnswerFields
  <2> QED BY <2>1, <2>2 DEF Keeps
<1> QED BY <1>1, <1>2, Zenon DEF Keeps

LEMMA CountedKeeps == ASSUME IsPeer(peer) PROVE Keeps(peer, Counted)
BY DEF Counted, IsPeer, Keeps

LEMMA MessageKeeps ==
    ASSUME IsPeer(peer), NEW m, NEW x \in send_message(m)
    PROVE  Keeps(peer, x)
<1> DEFINE u == MessageFrame(m)
           v == SubSeq(u, 1, Len(u) - 1)
<1>1. \/ x = peer
      \/ x \in Sent(peer, u)
      \/ \E z \in Sent(peer, v) : x = [z EXCEPT !.cut = TRUE]
  BY DEF send_message
<1> HIDE DEF u, v
<1>2. CASE x = peer
  BY <1>2 DEF Keeps
<1>3. CASE x \in Sent(peer, u)
  BY <1>3, SentKeeps
<1>4. CASE \E z \in Sent(peer, v) : x = [z EXCEPT !.cut = TRUE]
  <2>1. PICK z \in Sent(peer, v) : x = [z EXCEPT !.cut = TRUE]
    BY <1>4
  <2>2. Keeps(peer, z)
    BY SentKeeps
  <2>3. IsPeer(x) /\ x.key = z.key /\ x.accept = z.accept
    <3>1. IsPeer(z)
      BY <2>2 DEF Keeps
    <3>2. IsPeer(x)
      BY <2>1, <3>1, PeerFields
    <3>3. x.key = z.key /\ x.accept = z.accept
      BY <2>1, <3>1, AnswerFields
    <3> QED BY <3>2, <3>3
  <2> QED BY <2>2, <2>3 DEF Keeps
<1> QED BY <1>1, <1>2, <1>3, <1>4

LEMMA HandshakeStart == Init => HandshakeInv
<1>1. IsPeer(NewPeer) /\ Accepted(NewPeer)
  BY DEF IsPeer, NewPeer, Accepted
<1> QED BY <1>1 DEF Init, HandshakeInv

LEMMA HandshakeKept ==
    ASSUME HandshakeInv, Keeps(peer, peer')
    PROVE  HandshakeInv'
BY Zenon DEF HandshakeInv, Keeps, Accepted

LEMMA HandshakeMade ==
    ASSUME Transforms, HandshakeInv, WsHandshake
    PROVE  HandshakeInv'
<1>1. PICK r \in Requests :
         /\ process_handshake(r) # NULL
         /\ peer' = peer \/ peer' = [peer EXCEPT !.key = r.key, !.accept = process_handshake(r)]
  BY DEF WsHandshake
<1> DEFINE k == r.key
           a == process_handshake(r)
           o == [peer EXCEPT !.key = k]
           p == [o EXCEPT !.accept = a]
<1>2. IsBase64Of(a, Sha1(k \o WS_GUID))
  BY <1>1, AnswerIs
<1>3. CASE peer' = peer
  BY <1>3 DEF HandshakeInv, Accepted
<1>4. CASE peer' = [peer EXCEPT !.key = r.key, !.accept = process_handshake(r)]
  <2>1. peer' = p
    BY <1>4
  <2> HIDE DEF k, a
  <2>2. IsPeer(o) /\ o.key = k
    <3>1. IsPeer(peer)
      BY DEF HandshakeInv
    <3>2. IsPeer(o)
      BY <3>1, PeerFields
    <3>3. o.key = k
      BY <3>1, AnswerFields
    <3> QED BY <3>2, <3>3
  <2> HIDE DEF o
  <2>3. IsPeer(p) /\ p.key = k /\ p.accept = a
    <3>1. IsPeer(o)
      BY <2>2
    <3>2. IsPeer(p)
      BY <3>1, PeerFields
    <3>3. p.key = o.key /\ p.accept = a
      BY <3>1, AnswerFields
    <3> QED BY <2>2, <3>2, <3>3
  <2> HIDE DEF p
  <2> QED BY <1>2, <2>1, <2>3, Zenon DEF HandshakeInv, Accepted
<1> QED BY <1>1, <1>3, <1>4

LEMMA HandshakeStep ==
    ASSUME Transforms, HandshakeInv, [Next]_vars
    PROVE  HandshakeInv'
<1>1. CASE UNCHANGED peer
  BY <1>1 DEF HandshakeInv, Accepted
<1>2. CASE UNCHANGED vars
  BY <1>1, <1>2 DEF vars, ws, data
<1>3. CASE WsCreate \/ WsListen \/ WsListenFails \/ WsSelectNothing \/ WsReadable
  BY <1>1, <1>3 DEF WsCreate, WsListen, WsListenFails, WsSelectNothing, WsReadable, data
<1>4. CASE WsSelectError \/ WsSelectClose \/ WsDisconnected \/ WsHandshakeFails \/ WsRoundEnds
  BY <1>1, <1>4 DEF WsSelectError, WsSelectClose, WsDisconnected, WsHandshakeFails, WsRoundEnds, data
<1>5. CASE MqttInit \/ MqttNoBroker \/ MqttSocket \/ MqttConnected \/ MqttConnectFails
           \/ MqttSessionEnds \/ MqttClose
  <2>1. UNCHANGED ws
    BY <1>5 DEF MqttInit, MqttNoBroker, MqttSocket, MqttConnected, MqttConnectFails,
                MqttSessionEnds, MqttClose
  <2> QED BY <1>1, <2>1 DEF ws, data
<1>6. CASE WsAccept
  <2>1. IsPeer(NewPeer) /\ Accepted(NewPeer)
    BY DEF IsPeer, NewPeer, Accepted
  <2> QED BY <1>6, <2>1 DEF WsAccept, HandshakeInv
<1>7. CASE WsHandshake
  BY <1>7, HandshakeMade
<1>8. Keeps(peer, Counted)
  BY CountedKeeps DEF HandshakeInv
<1>9. CASE WsCloseFrame \/ WsPing
  <2>1. PICK u : peer' \in Sent(Counted, u)
    BY <1>9 DEF WsCloseFrame, WsPing
  <2> DEFINE c == Counted
  <2>2. Keeps(peer, c) /\ peer' \in Sent(c, u)
    BY <1>8, <2>1
  <2> HIDE DEF c
  <2>3. Keeps(c, peer')
    BY <2>2, SentKeeps DEF Keeps
  <2>4. Keeps(peer, peer')
    BY <2>2, <2>3, Zenon DEF Keeps
  <2> QED BY <2>4, HandshakeKept
<1>10. CASE WsData \/ WsIgnored
  <2>1. peer' = Counted
    BY <1>10 DEF WsData, WsIgnored
  <2> QED BY <1>8, <2>1, HandshakeKept
<1>11. CASE WsDrain
  <2>1. peer' \in send_message(Head(websocketQueue)) /\ IsPeer(peer)
    BY <1>11 DEF WsDrain, HandshakeInv
  <2>2. Keeps(peer, peer')
    BY <2>1, MessageKeeps
  <2> QED BY <2>2, HandshakeKept
<1>12. CASE WsStatus \/ \E size \in Sizes : Publish(size)
  BY <1>1, <1>12 DEF WsStatus, Publish
<1> QED
  BY <1>2, <1>3, <1>4, <1>5, <1>6, <1>7, <1>9, <1>10, <1>11, <1>12 DEF Next

(* HandshakeAccepted: whatever sha1_transform makes of a digest and a      *)
(* block, as long as it is a digest, every client finds in the answer to   *)
(* its handshake the base 64 of the hash of its own key                    *)
(* (create_key_accept, sha1_update, sha1_final, base64_encode).            *)
THEOREM HandshakesAccepted == Transforms => (Spec => []HandshakeAccepted)
<1> SUFFICES ASSUME Transforms PROVE Spec => []HandshakeAccepted
  OBVIOUS
<1>1. HandshakeInv => HandshakeAccepted
  BY Zenon DEF HandshakeInv, Accepted, HandshakeAccepted
<1>2. HandshakeInv /\ [Next]_vars => HandshakeInv'
  BY HandshakeStep
<1> QED BY <1>1, <1>2, HandshakeStart, PTL DEF Spec
=============================================================================
