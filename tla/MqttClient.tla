----------------------------- MODULE MqttClient -----------------------------
(***************************************************************************)
(* The MQTT session: mqtt_task of src/MQTT.cpp takes readings from the     *)
(* queue and publishes them with QoS 1 through MQTTClient.cpp, while the   *)
(* task MQTTRun reads the same connection and keeps it alive.  The client  *)
(* is shared under its mutex.                                              *)
(*                                                                         *)
(* Time passes in ticks of a fraction of command_timeout_ms.  The network  *)
(* may delay packets, fall silent, reset the connection and refuse a new   *)
(* one, until it becomes calm: from then on connections are accepted and   *)
(* stay, and an answer comes within the time one cycle waits for it.       *)
(*                                                                         *)
(* A packet that is longer than sendbuf (80 bytes, MQTT.cpp:36) is never   *)
(* sent, however good the network: the CONNECT with the user's name and    *)
(* password, or the PUBLISH with its topic and payload.  Of their lengths  *)
(* only this is kept, in credentials_fit and reading_fits.                 *)
(*                                                                         *)
(* The broker is given by its address.  mqtt_reconnect is left out:        *)
(* settings_save_fn sets it only in the branch it does not take when the   *)
(* MQTT settings changed (src/post.cpp:174-181).                           *)
(***************************************************************************)
EXTENDS Integers, Sequences

CONSTANTS KEEPALIVE,        \* keepAliveInterval, in ticks
          COMMAND_TIMEOUT,  \* command_timeout_ms, in ticks
          QUEUE_LENGTH,     \* length of mqttQueue
          MAX_PACKET_ID     \* last packet identifier before 1

ASSUME TimeAssumption ==
    /\ COMMAND_TIMEOUT \in Nat \ {0} /\ KEEPALIVE \in Nat /\ COMMAND_TIMEOUT < KEEPALIVE
ASSUME SizeAssumption == QUEUE_LENGTH \in Nat \ {0} /\ MAX_PACKET_ID \in Nat \ {0}

NONE == -1

VARIABLES
    task_pc,            \* where mqtt_task is
    mutex,              \* client.mutex is held by mqtt_task across its steps
    isconnected,        \* client.isconnected
    ping_outstanding,   \* client.ping_outstanding
    last_sent,          \* ticks left of client.last_sent
    last_received,      \* ticks left of client.last_received
    timer,              \* ticks left of the command's timer
    next_packetid,      \* client.next_packetid
    mypacketid,         \* identifier in the PUBACK that ended the last publish
    mqtt_connection_status,
    queue,              \* number of messages in mqttQueue
    credentials_fit,    \* the CONNECT with name and password fits sendbuf
    reading_fits,       \* so does the PUBLISH with the reading taken last
    conn,               \* the TCP connection
    toBroker,           \* packets on their way to the broker
    toClient,           \* packets on their way from the broker
    half,               \* the length byte of a PINGRESP is still to be read
    calm                \* environment: the network has become reliable

client == <<isconnected, ping_outstanding, last_sent, last_received, timer, next_packetid>>
net    == <<conn, toBroker, toClient, half, calm>>
sizes  == <<credentials_fit, reading_fits>>
vars   == <<task_pc, mutex, client, mypacketid, mqtt_connection_status, queue, sizes, net>>

Ids == 1 .. MAX_PACKET_ID

Packet(type)      == [type |-> type, id |-> 0]
IdPacket(type, i) == [type |-> type, id |-> i]

Requests == {Packet("CONNECT"), Packet("PINGREQ")} \cup {IdPacket("PUBLISH", i) : i \in Ids}
Answers  == {Packet("CONNACK"), Packet("PINGRESP")} \cup {IdPacket("PUBACK", i) : i \in Ids}

Nothing == Packet("none")       \* readPacket returns 0
Failed  == Packet("failure")    \* a negative return value
Results == Answers \cup {Nothing, Failed}

TaskPC == {"outer", "connect", "connack", "loop", "publish", "puback", "published", "close"}

TypeOK ==
    /\ task_pc \in TaskPC
    /\ mutex \in BOOLEAN /\ isconnected \in BOOLEAN /\ ping_outstanding \in BOOLEAN
    /\ last_sent \in 0 .. KEEPALIVE /\ last_received \in 0 .. KEEPALIVE
    /\ timer \in 0 .. COMMAND_TIMEOUT
    /\ next_packetid \in Ids
    /\ mypacketid \in {NONE} \cup Ids
    /\ mqtt_connection_status \in BOOLEAN
    /\ queue \in 0 .. QUEUE_LENGTH
    /\ credentials_fit \in BOOLEAN /\ reading_fits \in BOOLEAN
    /\ conn \in {"down", "up", "silent", "reset"}
    /\ toBroker \in Seq(Requests) /\ toClient \in Seq(Answers)
    /\ half \in BOOLEAN /\ calm \in BOOLEAN

\* mqtt_task has called NetworkInit and MQTTClientInit and started MQTTRun.
Init ==
    /\ task_pc = "outer" /\ mutex = FALSE
    /\ isconnected = FALSE /\ ping_outstanding = FALSE
    /\ last_sent = 0 /\ last_received = 0 /\ timer = 0
    /\ next_packetid = 1 /\ mypacketid = NONE
    /\ mqtt_connection_status = FALSE /\ queue = 0
    /\ credentials_fit \in BOOLEAN /\ reading_fits = TRUE
    /\ conn = "down" /\ toBroker = <<>> /\ toClient = <<>> /\ half = FALSE
    /\ calm = FALSE

-----------------------------------------------------------------------------
(* sendPacket and readPacket.                                              *)

\* A silent connection still takes what is written to it.
Sent(p) ==
    /\ conn \in {"up", "silent"}
    /\ toBroker' = IF conn = "up" THEN Append(toBroker, p) ELSE toBroker

\* An error, or no room in the send buffer until the timer expired.
SendFails ==
    /\ conn # "up" \/ ~calm
    /\ toBroker' = toBroker

\* No byte arrives while readPacket waits.
Quiet ==
    /\ toClient = <<>>
    /\ conn = "silent" \/ (conn = "up" /\ (calm => toBroker = <<>>))

\* Reads p; heard says whether last_received is restarted.  When the timer
\* expires inside a packet the part that was read is gone: an
\* acknowledgement then fails the command that waits for it, and a PINGRESP
\* counts although its length byte stays behind.  That byte, read as the
\* next header, has packet type 0, and what follows it is taken for a length.
readPacket(p, heard) ==
    \/ /\ ~half /\ toClient # <<>>
       /\ p = Head(toClient) /\ heard
       /\ toClient' = Tail(toClient) /\ half' = FALSE
    \/ /\ ~half /\ toClient # <<>> /\ ~calm
       /\ p = IF Head(toClient).type = "PINGRESP" THEN Head(toClient) ELSE Failed
       /\ heard = (p # Failed)
       /\ toClient' = Tail(toClient) /\ half' = (p # Failed)
    \/ /\ Quiet
       /\ p = Nothing /\ heard = half
       /\ half' = FALSE /\ UNCHANGED toClient
    \/ /\ half /\ toClient # <<>>       \* 64 bytes are awaited, or too many
       /\ p = IF Head(toClient).type = "PINGRESP" THEN Failed ELSE Nothing
       /\ ~heard
       /\ half' = FALSE
       /\ toClient' = IF p = Failed THEN Tail(toClient) ELSE <<>>
    \/ /\ conn \in {"reset", "down"} /\ toClient = <<>>
       /\ p = Failed /\ ~heard
       /\ UNCHANGED <<toClient, half>>

-----------------------------------------------------------------------------
(* keepalive and cycle.                                                    *)

KeepaliveFails(outstanding) ==
    \/ outstanding /\ toBroker' = toBroker
    \/ ~outstanding /\ SendFails

KeepalivePings(outstanding) ==
    /\ ~outstanding
    /\ Sent(Packet("PINGREQ"))
    /\ last_sent' = KEEPALIVE

\* One cycle with its return value rc and the value ping it gives to
\* ping_outstanding.  The callers close the session when it fails.
cycle(rc, ping) ==
    \E p \in Results, heard \in BOOLEAN :
       /\ readPacket(p, heard)
       /\ last_received' = IF heard THEN KEEPALIVE ELSE last_received
       /\ LET outstanding == ping_outstanding /\ p.type # "PINGRESP"
              due         == last_sent = 0 \/ last_received' = 0
          IN  \/ /\ p = Failed \/ ~due
                 /\ rc = p /\ ping = outstanding
                 /\ UNCHANGED <<toBroker, last_sent>>
              \/ /\ p # Failed /\ due
                 /\ rc = Failed /\ ping = outstanding
                 /\ KeepaliveFails(outstanding)
                 /\ UNCHANGED last_sent
              \/ /\ p # Failed /\ due
                 /\ rc = p /\ ping = TRUE
                 /\ KeepalivePings(outstanding)
       /\ UNCHANGED <<conn, calm>>

\* Mutation of MQTTCloseSession: isconnected is not cleared.
MQTTCloseSession_stays == isconnected' = isconnected /\ ping_outstanding' = FALSE

MQTTCloseSession == isconnected' = FALSE /\ ping_outstanding' = FALSE

\* Mutation of MQTTRun: the mutex is not taken.
MQTTRun_unlocked ==
    /\ isconnected
    /\ \E rc \in Results, ping \in BOOLEAN :
          /\ cycle(rc, ping)
          /\ \/ rc # Failed /\ isconnected' = TRUE /\ ping_outstanding' = ping
             \/ rc = Failed /\ MQTTCloseSession
    /\ UNCHANGED <<task_pc, mutex, timer, next_packetid, mypacketid, mqtt_connection_status, queue,
                   sizes>>

\* MQTTRun: one cycle of an open session, whenever the mutex is free.
MQTTRun ==
    /\ ~mutex /\ isconnected
    /\ \E rc \in Results, ping \in BOOLEAN :
          /\ cycle(rc, ping)
          /\ \/ rc # Failed /\ isconnected' = TRUE /\ ping_outstanding' = ping
             \/ rc = Failed /\ MQTTCloseSession
    /\ UNCHANGED <<task_pc, mutex, timer, next_packetid, mypacketid, mqtt_connection_status, queue,
                   sizes>>

-----------------------------------------------------------------------------
(* mqtt_task.                                                              *)

\* NetworkConnectWithTimeout.
NetworkConnects ==
    /\ task_pc = "outer"
    /\ conn' = "up" /\ toBroker' = <<>> /\ toClient' = <<>> /\ half' = FALSE
    /\ task_pc' = "connect"
    /\ UNCHANGED <<mutex, client, mypacketid, mqtt_connection_status, queue, sizes, calm>>

NetworkFails ==
    /\ task_pc = "outer" /\ ~calm
    /\ mqtt_connection_status' = FALSE
    /\ task_pc' = "close"
    /\ UNCHANGED <<mutex, client, mypacketid, queue, sizes, net>>

\* MQTTConnect up to the wait for CONNACK.  A session that is still open
\* makes it fail, and so does a CONNECT that is not sent or not even made.
MQTTConnect ==
    /\ task_pc = "connect"
    /\ \/ /\ ~isconnected /\ credentials_fit
          /\ Sent(Packet("CONNECT"))
          /\ timer' = COMMAND_TIMEOUT /\ last_sent' = KEEPALIVE /\ last_received' = KEEPALIVE
          /\ mutex' = TRUE /\ task_pc' = "connack"
          /\ UNCHANGED mqtt_connection_status
       \/ /\ ~isconnected
          /\ \/ credentials_fit /\ SendFails
             \/ ~credentials_fit /\ UNCHANGED toBroker
          /\ last_received' = KEEPALIVE
          /\ mqtt_connection_status' = FALSE /\ task_pc' = "close"
          /\ UNCHANGED <<timer, last_sent, mutex>>
       \/ /\ isconnected
          /\ mqtt_connection_status' = FALSE /\ task_pc' = "close"
          /\ UNCHANGED <<timer, last_sent, last_received, mutex, toBroker>>
    /\ UNCHANGED <<isconnected, ping_outstanding, next_packetid, mypacketid, queue, sizes, conn,
                   toClient, half, calm>>

ConnectFails == mqtt_connection_status' = FALSE /\ mutex' = FALSE /\ task_pc' = "close"

\* waitfor(CONNACK) and the rest of MQTTConnect; the broker may refuse.
WaitConnack ==
    /\ task_pc = "connack" /\ timer > 0
    /\ \E rc \in Results, ping \in BOOLEAN :
          /\ cycle(rc, ping)
          /\ \/ /\ rc.type = "CONNACK"
                /\ isconnected' = TRUE /\ ping_outstanding' = FALSE
                /\ mqtt_connection_status' = TRUE
                /\ mutex' = FALSE /\ task_pc' = "loop"
             \/ /\ rc = Failed \/ (rc.type = "CONNACK" /\ ~calm)
                /\ isconnected' = isconnected /\ ping_outstanding' = ping
                /\ ConnectFails
             \/ /\ rc # Failed /\ rc.type # "CONNACK"
                /\ isconnected' = isconnected /\ ping_outstanding' = ping
                /\ UNCHANGED <<mqtt_connection_status, mutex, task_pc>>
    /\ UNCHANGED <<timer, next_packetid, mypacketid, queue, sizes>>

ConnackTimeout ==
    /\ task_pc = "connack" /\ timer = 0
    /\ ConnectFails
    /\ UNCHANGED <<client, mypacketid, queue, sizes, net>>

\* xQueueReceive; the reading has some topic and some length.
Receive ==
    /\ task_pc = "loop" /\ queue > 0
    /\ queue' = queue - 1
    /\ reading_fits' \in BOOLEAN
    /\ task_pc' = "publish"
    /\ UNCHANGED <<mutex, client, mypacketid, mqtt_connection_status, credentials_fit, net>>

getNextPacketId == IF next_packetid = MAX_PACKET_ID THEN 1 ELSE next_packetid + 1

\* Mutation of PublishFails: the session is kept and the next reading taken.
PublishFails_keeps_session ==
    /\ mutex' = FALSE /\ task_pc' = "loop"
    /\ UNCHANGED <<isconnected, ping_outstanding>>

\* The way out of MQTTPublish with FAILURE, and mqtt_task's reaction to it.
PublishFails == MQTTCloseSession /\ mutex' = FALSE /\ task_pc' = "close"

\* MQTTPublish up to the wait for PUBACK.  A packet that does not fit has
\* its identifier already and ends the session like one that is not sent.
MQTTPublish ==
    /\ task_pc = "publish"
    /\ \/ /\ isconnected /\ reading_fits
          /\ Sent(IdPacket("PUBLISH", getNextPacketId))
          /\ next_packetid' = getNextPacketId
          /\ timer' = COMMAND_TIMEOUT /\ last_sent' = KEEPALIVE
          /\ mutex' = TRUE /\ task_pc' = "puback"
          /\ UNCHANGED <<isconnected, ping_outstanding>>
       \/ /\ isconnected
          /\ \/ reading_fits /\ SendFails
             \/ ~reading_fits /\ UNCHANGED toBroker
          /\ next_packetid' = getNextPacketId
          /\ PublishFails
          /\ UNCHANGED <<timer, last_sent>>
       \/ /\ ~isconnected
          /\ PublishFails
          /\ UNCHANGED <<next_packetid, timer, last_sent, toBroker>>
    /\ UNCHANGED <<last_received, mypacketid, mqtt_connection_status, queue, sizes, conn, toClient,
                   half, calm>>

\* waitfor(PUBACK).  The identifier of the PUBACK is read and not looked at.
WaitPuback ==
    /\ task_pc = "puback" /\ timer > 0
    /\ \E rc \in Results, ping \in BOOLEAN :
          /\ cycle(rc, ping)
          /\ \/ /\ rc.type = "PUBACK"
                /\ mypacketid' = rc.id
                /\ isconnected' = isconnected /\ ping_outstanding' = ping
                /\ mutex' = FALSE /\ task_pc' = "published"
             \/ /\ rc = Failed
                /\ PublishFails
                /\ UNCHANGED mypacketid
             \/ /\ rc # Failed /\ rc.type # "PUBACK"
                /\ isconnected' = isconnected /\ ping_outstanding' = ping
                /\ UNCHANGED <<mypacketid, mutex, task_pc>>
    /\ UNCHANGED <<timer, next_packetid, mqtt_connection_status, queue,
                   sizes>>

PubackTimeout ==
    /\ task_pc = "puback" /\ timer = 0
    /\ PublishFails
    /\ UNCHANGED <<last_sent, last_received, timer, next_packetid, mypacketid,
                   mqtt_connection_status, queue, sizes, net>>

\* The status LED is lit, and the next reading waited for.
Published ==
    /\ task_pc = "published"
    /\ task_pc' = "loop"
    /\ UNCHANGED <<mutex, client, mypacketid, mqtt_connection_status, queue, sizes, net>>

\* network.disconnect, then a pause.
Disconnect ==
    /\ task_pc = "close"
    /\ conn' = "down" /\ toBroker' = <<>> /\ toClient' = <<>> /\ half' = FALSE
    /\ task_pc' = "outer"
    /\ UNCHANGED <<mutex, client, mypacketid, mqtt_connection_status, queue, sizes, calm>>

mqtt_task ==
    \/ NetworkConnects \/ NetworkFails \/ MQTTConnect \/ WaitConnack \/ ConnackTimeout
    \/ Receive \/ MQTTPublish \/ WaitPuback \/ PubackTimeout \/ Published \/ Disconnect

-----------------------------------------------------------------------------
(* The rest of the system.                                                 *)

\* sendToMqttQueue; on a full queue it changes nothing.
sendToMqttQueue ==
    /\ queue < QUEUE_LENGTH
    /\ queue' = queue + 1
    /\ UNCHANGED <<task_pc, mutex, client, mypacketid, mqtt_connection_status, sizes, net>>

Answer(p) ==
    CASE p.type = "CONNECT" -> Packet("CONNACK")
      [] p.type = "PINGREQ" -> Packet("PINGRESP")
      [] p.type = "PUBLISH" -> IdPacket("PUBACK", p.id)

Broker ==
    /\ conn = "up" /\ toBroker # <<>>
    /\ toBroker' = Tail(toBroker)
    /\ toClient' = Append(toClient, Answer(Head(toBroker)))
    /\ UNCHANGED <<task_pc, mutex, client, mypacketid, mqtt_connection_status, queue, sizes, conn,
                   half, calm>>

\* The peer is gone or out of reach; what is under way to it is lost.
FallSilent ==
    /\ ~calm /\ conn = "up"
    /\ conn' = "silent" /\ toBroker' = <<>>
    /\ UNCHANGED <<task_pc, mutex, client, mypacketid, mqtt_connection_status, queue, sizes,
                   toClient, half, calm>>

Reset ==
    /\ conn = "silent" \/ (conn = "up" /\ ~calm)
    /\ conn' = "reset" /\ toBroker' = <<>> /\ toClient' = <<>>
    /\ UNCHANGED <<task_pc, mutex, client, mypacketid, mqtt_connection_status, queue, sizes, half,
                   calm>>

Calm ==
    /\ ~calm /\ calm' = TRUE
    /\ UNCHANGED <<task_pc, mutex, client, mypacketid, mqtt_connection_status, queue, sizes, conn,
                   toBroker, toClient, half>>

Less(n) == IF n > 0 THEN n - 1 ELSE 0

\* A command ends as soon as its timer has expired.
Tick ==
    /\ task_pc \in {"connack", "puback"} => timer > 0
    /\ calm /\ conn = "up" => toBroker = <<>> /\ toClient = <<>>
    /\ last_sent' = Less(last_sent) /\ last_received' = Less(last_received) /\ timer' = Less(timer)
    /\ UNCHANGED <<task_pc, mutex, isconnected, ping_outstanding, next_packetid, mypacketid,
                   mqtt_connection_status, queue, sizes, net>>

Next ==
    \/ mqtt_task \/ MQTTRun
    \/ sendToMqttQueue \/ Broker \/ FallSilent \/ Reset \/ Calm \/ Tick

\* Both tasks keep running, readings keep coming, the broker answers and
\* time passes.  No fault has to happen.
Fairness ==
    /\ WF_vars(mqtt_task) /\ WF_vars(MQTTRun)
    /\ WF_vars(sendToMqttQueue) /\ WF_vars(Broker) /\ WF_vars(Tick)

Spec == Init /\ [][Next]_vars /\ Fairness

-----------------------------------------------------------------------------
\* The PUBACK that makes a publish succeed answers that very publish, though
\* its identifier is not compared (MQTTClient.cpp:566-570): whatever was
\* left unanswered went away with its session and its connection.
AckIsForThis == task_pc = "published" => mypacketid = next_packetid

\* The socket is never closed under an open session: MQTTConnect, which
\* refuses to replace one, would then fail for ever.
ClosedWithoutSession == task_pc \in {"close", "outer", "connect", "connack"} => ~isconnected

\* A reading is about to be published.
Taken(fits) == task_pc = "publish" /\ reading_fits = fits

\* Once the network is reliable readings get through, whatever state the
\* client, its timers and the connection were left in.  Nothing else keeps
\* them back than a packet that does not fit sendbuf: with credentials that
\* fit every wait ends with a reading published or with one that is too
\* long, which costs the session (MQTTClient.cpp:560); and as long as
\* readings that fit come between the others they are published, so that
\* the session lost to one reading is there again for the next.
Delivers ==
    /\ calm /\ credentials_fit ~> task_pc = "published" \/ Taken(FALSE)
    /\ credentials_fit /\ []<>calm /\ []<>Taken(TRUE) => []<>(task_pc = "published")
=============================================================================
