----------------------------- MODULE MqttProofs -----------------------------
(***************************************************************************)
(* Proofs about MqttClient, for every keep-alive interval, command timeout *)
(* and range of packet identifiers: types, that the socket is only closed  *)
(* without a session, and that an acknowledgement is never taken for the   *)
(* one of another publish.                                                 *)
(***************************************************************************)
EXTENDS MqttClient, TLAPS

-----------------------------------------------------------------------------
(* What is on the connection, as a pair of sequences of packets.           *)

\* Neither a PUBLISH nor a PUBACK is under way.
Clean(b, c) ==
    /\ \A i \in DOMAIN b : b[i].type # "PUBLISH"
    /\ \A i \in DOMAIN c : c[i].type # "PUBACK"

\* At most one of them is, and it has identifier n.
OneInFlight(b, c, n) ==
    /\ \A i \in DOMAIN b : b[i].type = "PUBLISH" => b[i].id = n
    /\ \A i \in DOMAIN c : c[i].type = "PUBACK" => c[i].id = n
    /\ \A i, j \in DOMAIN b : b[i].type = "PUBLISH" /\ b[j].type = "PUBLISH" => i = j
    /\ \A i, j \in DOMAIN c : c[i].type = "PUBACK" /\ c[j].type = "PUBACK" => i = j
    /\ \A i \in DOMAIN b, j \in DOMAIN c : ~(b[i].type = "PUBLISH" /\ c[j].type = "PUBACK")

\* The fields of the packets.
LEMMA PacketTypes ==
    /\ \A p \in Requests : p.type \in {"CONNECT", "PINGREQ", "PUBLISH"} /\ p.id \in {0} \cup Ids
    /\ \A p \in Answers : p.type \in {"CONNACK", "PINGRESP", "PUBACK"} /\ p.id \in {0} \cup Ids
    /\ \A p \in Requests : p.type = "PUBLISH" => p.id \in Ids
    /\ \A p \in Answers : p.type = "PUBACK" => p.id \in Ids
    /\ Packet("CONNECT") \in Requests /\ Packet("CONNECT").type = "CONNECT"
    /\ Packet("PINGREQ") \in Requests /\ Packet("PINGREQ").type = "PINGREQ"
    /\ \A i \in Ids : /\ IdPacket("PUBLISH", i) \in Requests
                      /\ IdPacket("PUBLISH", i).type = "PUBLISH" /\ IdPacket("PUBLISH", i).id = i
    /\ Nothing.type = "none" /\ Failed.type = "failure"
<1>1. ASSUME NEW t, NEW i
      PROVE  /\ Packet(t).type = t /\ Packet(t).id = 0
             /\ IdPacket(t, i).type = t /\ IdPacket(t, i).id = i
  BY DEF Packet, IdPacket
<1>2. ASSUME NEW p \in Requests
      PROVE  \/ p.type = "CONNECT" /\ p.id = 0
             \/ p.type = "PINGREQ" /\ p.id = 0
             \/ p.type = "PUBLISH" /\ p.id \in Ids
  BY <1>1, <1>2 DEF Requests
<1>3. ASSUME NEW p \in Answers
      PROVE  \/ p.type = "CONNACK" /\ p.id = 0
             \/ p.type = "PINGRESP" /\ p.id = 0
             \/ p.type = "PUBACK" /\ p.id \in Ids
  BY <1>1, <1>3 DEF Answers
<1>4. Packet("CONNECT") \in Requests /\ Packet("PINGREQ") \in Requests
  BY DEF Requests
<1>5. \A i \in Ids : IdPacket("PUBLISH", i) \in Requests
  BY DEF Requests
<1>6. Nothing.type = "none" /\ Failed.type = "failure"
  BY <1>1 DEF Nothing, Failed
<1>7. \A p \in Requests : /\ p.type \in {"CONNECT", "PINGREQ", "PUBLISH"} /\ p.id \in {0} \cup Ids
                          /\ p.type = "PUBLISH" => p.id \in Ids
  BY <1>2
<1>8. \A p \in Answers : /\ p.type \in {"CONNACK", "PINGRESP", "PUBACK"} /\ p.id \in {0} \cup Ids
                         /\ p.type = "PUBACK" => p.id \in Ids
  BY <1>3
<1> QED BY <1>1, <1>4, <1>5, <1>6, <1>7, <1>8

\* Tail moves every packet one place forward.
LEMMA TailOf ==
    ASSUME NEW S, NEW s \in Seq(S), s # << >>
    PROVE  /\ Tail(s) \in Seq(S)
           /\ Head(s) = s[1] /\ s[1] \in S /\ 1 \in DOMAIN s
           /\ \A i \in DOMAIN Tail(s) : i + 1 \in DOMAIN s /\ Tail(s)[i] = s[i + 1]
           /\ \A i \in DOMAIN Tail(s) : i \in Nat \ {0}
  OBVIOUS

\* Append leaves every packet where it is and adds one.
LEMMA AppendTo ==
    ASSUME NEW S, NEW s \in Seq(S), NEW e \in S
    PROVE  /\ Append(s, e) \in Seq(S)
           /\ \A i \in DOMAIN Append(s, e) :
                 \/ i \in DOMAIN s /\ Append(s, e)[i] = s[i]
                 \/ i = Len(s) + 1 /\ Append(s, e)[i] = e
  OBVIOUS

\* A packet that is neither, added to what is sent.
LEMMA SendOther ==
    ASSUME NEW b \in Seq(Requests), NEW c \in Seq(Answers), NEW n \in Ids,
           NEW p \in Requests, p.type # "PUBLISH"
    PROVE  /\ Append(b, p) \in Seq(Requests)
           /\ Clean(b, c) => Clean(Append(b, p), c)
           /\ OneInFlight(b, c, n) => OneInFlight(Append(b, p), c, n)
<1> DEFINE b2 == Append(b, p)
<1>1. /\ b2 \in Seq(Requests)
      /\ \A i \in DOMAIN b2 : b2[i].type = "PUBLISH" => i \in DOMAIN b /\ b2[i] = b[i]
  BY AppendTo
<1> HIDE DEF b2
<1>2. Clean(b, c) => Clean(b2, c)
  BY <1>1 DEF Clean
<1>3. OneInFlight(b, c, n) => OneInFlight(b2, c, n)
  BY <1>1 DEF OneInFlight
<1> QED BY <1>1, <1>2, <1>3 DEF b2

\* What has been read, or lost, is no longer under way.
LEMMA Read ==
    ASSUME NEW b \in Seq(Requests), NEW c \in Seq(Answers), NEW n \in Ids,
           NEW c2, c2 \in {c, << >>} \/ (c # << >> /\ c2 = Tail(c))
    PROVE  /\ c2 \in Seq(Answers)
           /\ Clean(b, c) => Clean(b, c2)
           /\ OneInFlight(b, c, n) => OneInFlight(b, c2, n)
<1>1. CASE c2 = c
  BY <1>1
<1>2. CASE c2 = << >>
  BY <1>2 DEF Clean, OneInFlight
<1>3. CASE c # << >> /\ c2 = Tail(c)
  <2>1. /\ c2 \in Seq(Answers)
        /\ \A i \in DOMAIN c2 : i \in Nat \ {0} /\ i + 1 \in DOMAIN c /\ c2[i] = c[i + 1]
    BY <1>3, TailOf
  <2>2. Clean(b, c) => Clean(b, c2)
    BY <2>1 DEF Clean
  <2>3. ASSUME OneInFlight(b, c, n) PROVE OneInFlight(b, c2, n)
    <3>1. \A i, j \in DOMAIN c2 : c2[i].type = "PUBACK" /\ c2[j].type = "PUBACK" => i = j
      <4> TAKE i, j \in DOMAIN c2
      <4> HAVE c2[i].type = "PUBACK" /\ c2[j].type = "PUBACK"
      <4>1. i + 1 = j + 1
        BY <2>1, <2>3 DEF OneInFlight
      <4> QED BY <4>1, <2>1
    <3> QED BY <2>1, <2>3, <3>1 DEF OneInFlight
  <2> QED BY <2>1, <2>2, <2>3
<1> QED BY <1>1, <1>2, <1>3

\* The one PUBACK under way is the right one, and nothing is left behind it.
LEMMA TakeAck ==
    ASSUME NEW b \in Seq(Requests), NEW c \in Seq(Answers), NEW n \in Ids,
           OneInFlight(b, c, n), c # << >>, Head(c).type = "PUBACK"
    PROVE  Head(c).id = n /\ Clean(b, Tail(c))
<1>1. /\ Head(c) = c[1] /\ 1 \in DOMAIN c
      /\ \A i \in DOMAIN Tail(c) : i \in Nat \ {0} /\ i + 1 \in DOMAIN c /\ Tail(c)[i] = c[i + 1]
  BY TailOf
<1>2. Head(c).id = n
  BY <1>1 DEF OneInFlight
<1>3. \A i \in DOMAIN b : b[i].type # "PUBLISH"
  BY <1>1 DEF OneInFlight
<1>4. \A i \in DOMAIN Tail(c) : Tail(c)[i].type # "PUBACK"
  <2> SUFFICES ASSUME NEW i \in DOMAIN Tail(c), Tail(c)[i].type = "PUBACK" PROVE FALSE
    OBVIOUS
  <2>1. i + 1 = 1
    BY <1>1 DEF OneInFlight
  <2> QED BY <2>1, <1>1
<1> QED BY <1>2, <1>3, <1>4 DEF Clean

\* A PUBLISH sent over a clean connection is the only one under way.
LEMMA SendPublish ==
    ASSUME NEW b \in Seq(Requests), NEW c \in Seq(Answers), NEW n \in Ids, Clean(b, c)
    PROVE  /\ Append(b, IdPacket("PUBLISH", n)) \in Seq(Requests)
           /\ OneInFlight(Append(b, IdPacket("PUBLISH", n)), c, n)
           /\ OneInFlight(b, c, n)
<1> DEFINE p == IdPacket("PUBLISH", n)
           b2 == Append(b, p)
<1>1. p \in Requests /\ p.id = n
  BY PacketTypes
<1> HIDE DEF p
<1>2. /\ b2 \in Seq(Requests)
      /\ \A i \in DOMAIN b2 : b2[i].type = "PUBLISH" => i = Len(b) + 1 /\ b2[i] = p
  BY <1>1, AppendTo DEF Clean
<1> HIDE DEF b2
<1>3. OneInFlight(b2, c, n)
  BY <1>1, <1>2 DEF OneInFlight, Clean
<1>4. OneInFlight(b, c, n)
  BY DEF OneInFlight, Clean
<1> QED BY <1>2, <1>3, <1>4 DEF b2, p

\* The broker's answer takes the place of the request.
LEMMA BrokerAnswers ==
    ASSUME NEW b \in Seq(Requests), NEW c \in Seq(Answers), NEW n \in Ids, b # << >>
    PROVE  /\ Tail(b) \in Seq(Requests)
           /\ Append(c, Answer(Head(b))) \in Seq(Answers)
           /\ Clean(b, c) => Clean(Tail(b), Append(c, Answer(Head(b))))
           /\ OneInFlight(b, c, n) => OneInFlight(Tail(b), Append(c, Answer(Head(b))), n)
<1> DEFINE a == Answer(Head(b))
           b2 == Tail(b)
           c2 == Append(c, a)
<1>1. /\ b2 \in Seq(Requests)
      /\ Head(b) = b[1] /\ b[1] \in Requests /\ 1 \in DOMAIN b
      /\ \A i \in DOMAIN b2 : i \in Nat \ {0} /\ i + 1 \in DOMAIN b /\ b2[i] = b[i + 1]
  BY TailOf
<1>2. /\ a \in Answers
      /\ a.type = "PUBACK" => b[1].type = "PUBLISH" /\ a.id = b[1].id
  <2>1. CASE b[1].type = "CONNECT"
    BY <1>1, <2>1 DEF Answer, Answers, Packet
  <2>2. CASE b[1].type = "PINGREQ"
    BY <1>1, <2>2 DEF Answer, Answers, Packet
  <2>3. CASE b[1].type = "PUBLISH"
    <3>1. a = IdPacket("PUBACK", b[1].id)
      BY <1>1, <2>3 DEF Answer
    <3>2. b[1].id \in Ids
      BY <1>1, <2>3, PacketTypes
    <3> QED BY <3>1, <3>2, <2>3 DEF Answers, IdPacket
  <2> QED BY <1>1, <2>1, <2>2, <2>3, PacketTypes
<1> HIDE DEF a, b2
<1>3. /\ c2 \in Seq(Answers)
      /\ \A i \in DOMAIN c2 : \/ i \in DOMAIN c /\ c2[i] = c[i]
                              \/ i = Len(c) + 1 /\ c2[i] = a
  BY <1>2, AppendTo
<1> HIDE DEF c2
<1>4. Clean(b, c) => Clean(b2, c2)
  BY <1>1, <1>2, <1>3 DEF Clean
<1>5. ASSUME OneInFlight(b, c, n) PROVE OneInFlight(b2, c2, n)
  <2>1. \A i, j \in DOMAIN b2 : b2[i].type = "PUBLISH" /\ b2[j].type = "PUBLISH" => i = j
    <3> TAKE i, j \in DOMAIN b2
    <3> HAVE b2[i].type = "PUBLISH" /\ b2[j].type = "PUBLISH"
    <3>1. i + 1 = j + 1
      BY <1>1, <1>5 DEF OneInFlight
    <3> QED BY <3>1, <1>1
  <2>2. \A i \in DOMAIN b2 : b2[i].type = "PUBLISH" => b[1].type # "PUBLISH" /\ b2[i].id = n
    <3> TAKE i \in DOMAIN b2
    <3> HAVE b2[i].type = "PUBLISH"
    <3>1. i + 1 # 1 /\ i + 1 \in DOMAIN b /\ b2[i] = b[i + 1]
      BY <1>1
    <3> QED BY <3>1, <1>1, <1>5 DEF OneInFlight
  <2>3. \A i \in DOMAIN c2 : c2[i].type = "PUBACK" => c2[i].id = n
    BY <1>1, <1>2, <1>3, <1>5 DEF OneInFlight
  <2>4. \A i, j \in DOMAIN c2 : c2[i].type = "PUBACK" /\ c2[j].type = "PUBACK" => i = j
    BY <1>1, <1>2, <1>3, <1>5 DEF OneInFlight
  <2>5. \A i \in DOMAIN b2, j \in DOMAIN c2 : ~(b2[i].type = "PUBLISH" /\ c2[j].type = "PUBACK")
    BY <1>1, <1>2, <1>3, <1>5, <2>2 DEF OneInFlight
  <2> QED BY <2>1, <2>2, <2>3, <2>4, <2>5 DEF OneInFlight
<1> QED BY <1>1, <1>3, <1>4, <1>5 DEF a, b2, c2

-----------------------------------------------------------------------------
(* What one cycle does to the connection and to the client.                *)

\* readPacket takes away what it reads; a PUBACK it returns was the first
\* packet under way.
LEMMA ReadPacket ==
    ASSUME TypeOK, NEW p \in Results, NEW heard \in BOOLEAN, readPacket(p, heard)
    PROVE  /\ toClient' \in {toClient, << >>} \/ (toClient # << >> /\ toClient' = Tail(toClient))
           /\ half' \in BOOLEAN
           /\ p.type = "PUBACK" => toClient # << >> /\ p = Head(toClient) /\ toClient' = Tail(toClient)
  BY PacketTypes DEF TypeOK, readPacket, Quiet

\* The part of the state a cycle may change, after it.
CycleTypes ==
    /\ last_sent' \in 0 .. KEEPALIVE /\ last_received' \in 0 .. KEEPALIVE
    /\ half' \in BOOLEAN
    /\ conn' = conn /\ calm' = calm
    /\ toBroker' \in Seq(Requests) /\ toClient' \in Seq(Answers)

\* A cycle preserves what is known of the connection, and the PUBACK it
\* returns is the one that was under way.
LEMMA Cycle ==
    ASSUME TypeOK, NEW rc \in Results, NEW ping \in BOOLEAN, cycle(rc, ping)
    PROVE  /\ CycleTypes
           /\ Clean(toBroker, toClient) => Clean(toBroker', toClient')
           /\ OneInFlight(toBroker, toClient, next_packetid)
                 => OneInFlight(toBroker', toClient', next_packetid)
           /\ OneInFlight(toBroker, toClient, next_packetid) /\ rc.type = "PUBACK"
                 => rc.id = next_packetid /\ Clean(toBroker', toClient')
<1>1. PICK p \in Results, heard \in BOOLEAN :
         /\ readPacket(p, heard)
         /\ last_received' = IF heard THEN KEEPALIVE ELSE last_received
         /\ \/ /\ rc = p
               /\ UNCHANGED <<toBroker, last_sent>>
            \/ /\ rc = Failed
               /\ KeepaliveFails(ping_outstanding /\ p.type # "PINGRESP")
               /\ UNCHANGED last_sent
            \/ /\ rc = p
               /\ KeepalivePings(ping_outstanding /\ p.type # "PINGRESP")
         /\ UNCHANGED <<conn, calm>>
  BY DEF cycle
<1>2. /\ toBroker \in Seq(Requests) /\ toClient \in Seq(Answers) /\ next_packetid \in Ids
      /\ KEEPALIVE \in 0 .. KEEPALIVE /\ 0 \in 0 .. KEEPALIVE
  BY TimeAssumption DEF TypeOK
<1>3. /\ toClient' \in {toClient, << >>} \/ (toClient # << >> /\ toClient' = Tail(toClient))
      /\ half' \in BOOLEAN
      /\ p.type = "PUBACK" => toClient # << >> /\ p = Head(toClient) /\ toClient' = Tail(toClient)
  BY <1>1, ReadPacket
<1>4. toBroker' = toBroker \/ toBroker' = Append(toBroker, Packet("PINGREQ"))
  BY <1>1 DEF KeepaliveFails, KeepalivePings, SendFails, Sent
<1>5. /\ toClient' \in Seq(Answers)
      /\ Clean(toBroker, toClient) => Clean(toBroker, toClient')
      /\ OneInFlight(toBroker, toClient, next_packetid)
            => OneInFlight(toBroker, toClient', next_packetid)
  BY <1>2, <1>3, Read
<1>6. /\ toBroker' \in Seq(Requests)
      /\ Clean(toBroker, toClient') => Clean(toBroker', toClient')
      /\ OneInFlight(toBroker, toClient', next_packetid)
            => OneInFlight(toBroker', toClient', next_packetid)
  <2>1. Packet("PINGREQ") \in Requests /\ Packet("PINGREQ").type # "PUBLISH"
    BY PacketTypes
  <2> DEFINE q == Packet("PINGREQ")
  <2>2. q \in Requests /\ q.type # "PUBLISH" /\ (toBroker' = toBroker \/ toBroker' = Append(toBroker, q))
    BY <2>1, <1>4
  <2> HIDE DEF q
  <2> QED BY <2>2, <1>2, <1>5, SendOther
<1>7. rc.type = "PUBACK" => rc = p
  BY <1>1, PacketTypes
<1>8. ASSUME OneInFlight(toBroker, toClient, next_packetid), rc.type = "PUBACK"
      PROVE  rc.id = next_packetid /\ Clean(toBroker', toClient')
  <2>1. Head(toClient).id = next_packetid /\ Clean(toBroker, Tail(toClient))
    BY <1>2, <1>3, <1>7, <1>8, TakeAck
  <2> QED BY <2>1, <1>3, <1>6, <1>7, <1>8
<1>9. last_sent' \in 0 .. KEEPALIVE /\ last_received' \in 0 .. KEEPALIVE
  BY <1>1, <1>2 DEF TypeOK, KeepalivePings
<1> QED BY <1>1, <1>3, <1>5, <1>6, <1>8, <1>9 DEF CycleTypes

-----------------------------------------------------------------------------
(* The inductive invariant.                                                *)

\* A PUBLISH or its PUBACK is under way only while mqtt_task waits for it,
\* or is about to close the connection that it was sent over.
Connection ==
    /\ task_pc \notin {"puback", "close"} => Clean(toBroker, toClient)
    /\ task_pc = "puback" => OneInFlight(toBroker, toClient, next_packetid)

IInv == TypeOK /\ ClosedWithoutSession /\ Connection /\ AckIsForThis

\* The identifier wraps inside its range.
LEMMA NextId ==
    ASSUME TypeOK
    PROVE  getNextPacketId \in Ids
  BY SizeAssumption DEF TypeOK, getNextPacketId, Ids

\* A new connection.
LEMMA EmptyIsClean ==
    Clean(<< >>, << >>) /\ << >> \in Seq(Requests) /\ << >> \in Seq(Answers)
<1>1. Clean(<< >>, << >>)
  BY DEF Clean
<1>2. \A S : << >> \in Seq(S)
  OBVIOUS
<1> QED BY <1>1, <1>2

\* The greatest value of each interval is one of its values.
LEMMA Bounds ==
    /\ 0 \in 0 .. KEEPALIVE /\ KEEPALIVE \in 0 .. KEEPALIVE
    /\ 0 \in 0 .. COMMAND_TIMEOUT /\ COMMAND_TIMEOUT \in 0 .. COMMAND_TIMEOUT
    /\ 1 \in Ids /\ 0 \in 0 .. QUEUE_LENGTH
  BY TimeAssumption, SizeAssumption DEF Ids

\* No connection and no session.
LEMMA InitIInv == Init => IInv
<1> SUFFICES ASSUME Init PROVE IInv
  OBVIOUS
<1>1. TypeOK
  <2>1. toBroker \in Seq(Requests) /\ toClient \in Seq(Answers)
    BY EmptyIsClean DEF Init
  <2> QED BY <2>1, Bounds DEF Init, TypeOK, TaskPC
<1>2. Connection
  BY EmptyIsClean DEF Init, Connection
<1> QED BY <1>1, <1>2 DEF Init, IInv, ClosedWithoutSession, AckIsForThis

\* The cycles of MQTTRun.
LEMMA MQTTRunStep == IInv /\ MQTTRun => IInv'
<1> SUFFICES ASSUME IInv, MQTTRun PROVE IInv'
  OBVIOUS
<1> USE DEF IInv
<1>1. PICK rc \in Results, ping \in BOOLEAN :
         /\ cycle(rc, ping)
         /\ \/ isconnected' = TRUE /\ ping_outstanding' = ping
            \/ MQTTCloseSession
  BY DEF MQTTRun
<1>2. UNCHANGED <<task_pc, mutex, timer, next_packetid, mypacketid, mqtt_connection_status, queue,
                  sizes>>
      /\ isconnected
  BY DEF MQTTRun
<1>3. /\ CycleTypes
      /\ Clean(toBroker, toClient) => Clean(toBroker', toClient')
      /\ OneInFlight(toBroker, toClient, next_packetid)
            => OneInFlight(toBroker', toClient', next_packetid)
  BY <1>1, Cycle
<1>4. TypeOK'
  BY <1>1, <1>2, <1>3 DEF TypeOK, sizes, CycleTypes, MQTTCloseSession
<1>5. ClosedWithoutSession'
  BY <1>1, <1>2 DEF ClosedWithoutSession, MQTTCloseSession
<1>6. Connection'
  BY <1>2, <1>3 DEF Connection
<1> QED BY <1>2, <1>4, <1>5, <1>6 DEF AckIsForThis

\* Connecting and disconnecting the socket.
LEMMA NetworkStep ==
    IInv /\ (NetworkConnects \/ NetworkFails \/ Disconnect) => IInv'
<1> SUFFICES ASSUME IInv, NetworkConnects \/ NetworkFails \/ Disconnect PROVE IInv'
  OBVIOUS
<1> USE DEF IInv
<1>1. TypeOK'
  <2>1. toBroker' \in Seq(Requests) /\ toClient' \in Seq(Answers)
    BY EmptyIsClean DEF NetworkConnects, NetworkFails, Disconnect, TypeOK, net
  <2> QED BY <2>1 DEF NetworkConnects, NetworkFails, Disconnect, TypeOK, sizes, TaskPC, client, net
<1>2. ClosedWithoutSession'
  BY DEF NetworkConnects, NetworkFails, Disconnect, ClosedWithoutSession, client
<1>3. Connection'
  BY EmptyIsClean DEF NetworkConnects, NetworkFails, Disconnect, Connection, net
<1> QED BY <1>1, <1>2, <1>3 DEF NetworkConnects, NetworkFails, Disconnect, AckIsForThis

\* MQTTConnect adds a CONNECT at most.
LEMMA ConnectStep == IInv /\ MQTTConnect => IInv'
<1> SUFFICES ASSUME IInv, MQTTConnect PROVE IInv'
  OBVIOUS
<1> USE DEF IInv
<1> DEFINE q == Packet("CONNECT")
<1>1. toBroker' = toBroker \/ toBroker' = Append(toBroker, q)
  BY DEF MQTTConnect, Sent, SendFails
<1>2. q \in Requests /\ q.type # "PUBLISH"
  BY PacketTypes
<1> HIDE DEF q
<1>3. /\ toBroker' \in Seq(Requests)
      /\ Clean(toBroker, toClient) => Clean(toBroker', toClient)
  BY <1>1, <1>2, SendOther DEF TypeOK
<1>4. TypeOK'
  BY <1>3, Bounds DEF MQTTConnect, TypeOK, sizes, TaskPC
<1>5. ClosedWithoutSession'
  BY DEF MQTTConnect, ClosedWithoutSession
<1>6. Connection'
  BY <1>3 DEF MQTTConnect, Connection
<1> QED BY <1>4, <1>5, <1>6 DEF MQTTConnect, AckIsForThis

\* The wait for CONNACK is a cycle; no publish has been sent yet.
LEMMA ConnackStep == IInv /\ (WaitConnack \/ ConnackTimeout) => IInv'
<1> SUFFICES ASSUME IInv, WaitConnack \/ ConnackTimeout PROVE IInv'
  OBVIOUS
<1> USE DEF IInv
<1>1. CASE WaitConnack
  <2>1. PICK rc \in Results, ping \in BOOLEAN :
           /\ cycle(rc, ping)
           /\ \/ /\ isconnected' = TRUE /\ ping_outstanding' = FALSE
                 /\ mqtt_connection_status' = TRUE
                 /\ mutex' = FALSE /\ task_pc' = "loop"
              \/ /\ isconnected' = isconnected /\ ping_outstanding' = ping
                 /\ ConnectFails
              \/ /\ isconnected' = isconnected /\ ping_outstanding' = ping
                 /\ UNCHANGED <<mqtt_connection_status, mutex, task_pc>>
    BY <1>1 DEF WaitConnack
  <2>2. UNCHANGED <<timer, next_packetid, mypacketid, queue, sizes>> /\ task_pc = "connack"
    BY <1>1 DEF WaitConnack
  <2>3. CycleTypes /\ (Clean(toBroker, toClient) => Clean(toBroker', toClient'))
    BY <2>1, Cycle
  <2>4. TypeOK'
    BY <2>1, <2>2, <2>3 DEF TypeOK, sizes, TaskPC, CycleTypes, ConnectFails
  <2>5. ClosedWithoutSession'
    BY <2>1, <2>2 DEF ClosedWithoutSession, ConnectFails
  <2>6. Connection'
    BY <2>1, <2>2, <2>3 DEF Connection, ConnectFails
  <2> QED BY <2>1, <2>2, <2>4, <2>5, <2>6 DEF AckIsForThis, ConnectFails
<1>2. CASE ConnackTimeout
  <2>1. TypeOK'
    BY <1>2 DEF ConnackTimeout, ConnectFails, TypeOK, sizes, TaskPC, client, net
  <2> QED BY <1>2, <2>1 DEF ConnackTimeout, ConnectFails, ClosedWithoutSession, Connection,
             AckIsForThis, client
<1> QED BY <1>1, <1>2

\* MQTTPublish sends over a clean connection, or gives the session up.
LEMMA PublishStep == IInv /\ MQTTPublish => IInv'
<1> SUFFICES ASSUME IInv, MQTTPublish PROVE IInv'
  OBVIOUS
<1> USE DEF IInv
<1> DEFINE n == getNextPacketId
<1>1. /\ n \in Ids /\ task_pc = "publish" /\ Clean(toBroker, toClient)
      /\ toBroker \in Seq(Requests) /\ toClient \in Seq(Answers)
  BY NextId DEF MQTTPublish, Connection, TypeOK
<1> DEFINE b2 == Append(toBroker, IdPacket("PUBLISH", n))
<1>2. toBroker' \in {toBroker, b2} /\ (task_pc' = "puback" => next_packetid' = n)
  BY DEF MQTTPublish, Sent, SendFails, PublishFails
<1>3. next_packetid' \in Ids
  BY <1>1 DEF MQTTPublish, TypeOK
<1>4. UNCHANGED <<last_received, mypacketid, mqtt_connection_status, queue, sizes, conn, toClient,
                  half, calm>>
  BY DEF MQTTPublish
<1> HIDE DEF n
<1>5. /\ b2 \in Seq(Requests)
      /\ OneInFlight(b2, toClient, n) /\ OneInFlight(toBroker, toClient, n)
  BY <1>1, SendPublish
<1> HIDE DEF b2
<1>6. toBroker' \in Seq(Requests) /\ OneInFlight(toBroker', toClient', n)
  BY <1>1, <1>2, <1>4, <1>5
<1>7. \/ /\ isconnected' = isconnected /\ ping_outstanding' = ping_outstanding
         /\ mutex' = TRUE /\ task_pc' = "puback"
         /\ timer' = COMMAND_TIMEOUT /\ last_sent' = KEEPALIVE
      \/ /\ isconnected' = FALSE /\ ping_outstanding' = FALSE
         /\ mutex' = FALSE /\ task_pc' = "close"
         /\ UNCHANGED <<timer, last_sent>>
  BY DEF MQTTPublish, PublishFails, MQTTCloseSession
<1>8. TypeOK'
  BY <1>3, <1>4, <1>6, <1>7, Bounds DEF TypeOK, sizes, TaskPC
<1>9. ClosedWithoutSession'
  BY <1>7 DEF ClosedWithoutSession
<1>10. Connection'
  BY <1>2, <1>6, <1>7 DEF Connection
<1> QED BY <1>7, <1>8, <1>9, <1>10 DEF AckIsForThis

\* The wait for PUBACK takes the only one there can be, or gives the session up.
LEMMA PubackStep == IInv /\ (WaitPuback \/ PubackTimeout) => IInv'
<1> SUFFICES ASSUME IInv, WaitPuback \/ PubackTimeout PROVE IInv'
  OBVIOUS
<1> USE DEF IInv
<1>1. CASE WaitPuback
  <2>1. PICK rc \in Results, ping \in BOOLEAN :
           /\ cycle(rc, ping)
           /\ \/ /\ rc.type = "PUBACK"
                 /\ mypacketid' = rc.id
                 /\ isconnected' = isconnected /\ ping_outstanding' = ping
                 /\ mutex' = FALSE /\ task_pc' = "published"
              \/ PublishFails /\ UNCHANGED mypacketid
              \/ /\ isconnected' = isconnected /\ ping_outstanding' = ping
                 /\ UNCHANGED <<mypacketid, mutex, task_pc>>
    BY <1>1 DEF WaitPuback
  <2>2. /\ UNCHANGED <<timer, next_packetid, mqtt_connection_status, queue, sizes>>
        /\ task_pc = "puback"
    BY <1>1 DEF WaitPuback
  <2>3. /\ CycleTypes
        /\ OneInFlight(toBroker', toClient', next_packetid)
        /\ rc.type = "PUBACK" => rc.id = next_packetid /\ Clean(toBroker', toClient')
    BY <2>1, <2>2, Cycle DEF Connection
  <2>4. TypeOK'
    BY <2>1, <2>2, <2>3 DEF TypeOK, sizes, TaskPC, CycleTypes, PublishFails, MQTTCloseSession
  <2>5. ClosedWithoutSession'
    BY <2>1, <2>2 DEF ClosedWithoutSession, PublishFails, MQTTCloseSession
  <2>6. Connection'
    BY <2>1, <2>2, <2>3 DEF Connection, PublishFails
  <2>7. AckIsForThis'
    BY <2>1, <2>2, <2>3 DEF AckIsForThis, PublishFails
  <2> QED BY <2>4, <2>5, <2>6, <2>7
<1>2. CASE PubackTimeout
  <2>1. TypeOK'
    BY <1>2 DEF PubackTimeout, PublishFails, MQTTCloseSession, TypeOK, sizes, TaskPC, net
  <2> QED BY <1>2, <2>1 DEF PubackTimeout, PublishFails, MQTTCloseSession, ClosedWithoutSession,
             Connection, AckIsForThis
<1> QED BY <1>1, <1>2

\* The queue, the broker, the network and the clock.
LEMMA BrokerStep == IInv /\ Broker => IInv'
<1> SUFFICES ASSUME IInv, Broker PROVE IInv'
  OBVIOUS
<1> USE DEF IInv
<1>1. /\ toBroker \in Seq(Requests) /\ toClient \in Seq(Answers) /\ next_packetid \in Ids
      /\ toBroker # << >>
      /\ toBroker' = Tail(toBroker) /\ toClient' = Append(toClient, Answer(Head(toBroker)))
  BY DEF Broker, TypeOK
<1>2. /\ toBroker' \in Seq(Requests) /\ toClient' \in Seq(Answers)
      /\ Clean(toBroker, toClient) => Clean(toBroker', toClient')
      /\ OneInFlight(toBroker, toClient, next_packetid)
            => OneInFlight(toBroker', toClient', next_packetid)
  BY <1>1, BrokerAnswers
<1>3. /\ UNCHANGED <<task_pc, mutex, mypacketid, mqtt_connection_status, queue, sizes, conn, half,
                     calm>>
      /\ UNCHANGED <<isconnected, ping_outstanding, last_sent, last_received, timer, next_packetid>>
  BY DEF Broker, client
<1>4. TypeOK'
  BY <1>2, <1>3 DEF TypeOK, sizes
<1> QED BY <1>2, <1>3, <1>4 DEF ClosedWithoutSession, Connection, AckIsForThis

\* Faults only take packets away.
LEMMA FaultStep == IInv /\ (FallSilent \/ Reset \/ Calm) => IInv'
<1> SUFFICES ASSUME IInv, FallSilent \/ Reset \/ Calm PROVE IInv'
  OBVIOUS
<1> USE DEF IInv
<1>1. /\ UNCHANGED <<task_pc, mutex, mypacketid, mqtt_connection_status, queue, sizes, half>>
      /\ UNCHANGED <<isconnected, ping_outstanding, last_sent, last_received, timer, next_packetid>>
      /\ toBroker' \in {toBroker, << >>} /\ toClient' \in {toClient, << >>}
      /\ conn' \in {conn, "silent", "reset"} /\ calm' \in {calm, TRUE}
  BY DEF FallSilent, Reset, Calm, client
<1>2. TypeOK'
  <2>1. toBroker' \in Seq(Requests) /\ toClient' \in Seq(Answers)
    BY <1>1, EmptyIsClean DEF TypeOK
  <2>2. conn' \in {"down", "up", "silent", "reset"}
    BY <1>1 DEF TypeOK
  <2>3. calm' \in BOOLEAN
    BY <1>1, Zenon DEF TypeOK
  <2> QED BY <1>1, <2>1, <2>2, <2>3 DEF TypeOK, sizes
<1>3. /\ Clean(toBroker, toClient) => Clean(toBroker', toClient')
      /\ OneInFlight(toBroker, toClient, next_packetid)
            => OneInFlight(toBroker', toClient', next_packetid')
  BY <1>1 DEF Clean, OneInFlight
<1> QED BY <1>1, <1>2, <1>3 DEF ClosedWithoutSession, Connection, AckIsForThis

\* Time runs the timers down.
LEMMA TickStep == IInv /\ Tick => IInv'
<1> SUFFICES ASSUME IInv, Tick PROVE IInv'
  OBVIOUS
<1> USE DEF IInv
<1>1. /\ UNCHANGED <<task_pc, mutex, mypacketid, mqtt_connection_status, queue, sizes>>
      /\ UNCHANGED <<isconnected, ping_outstanding, next_packetid>>
      /\ UNCHANGED <<conn, toBroker, toClient, half, calm>>
  BY DEF Tick, net
<1>2. /\ last_sent' \in 0 .. KEEPALIVE /\ last_received' \in 0 .. KEEPALIVE
      /\ timer' \in 0 .. COMMAND_TIMEOUT
  BY TimeAssumption DEF Tick, Less, TypeOK
<1>3. TypeOK'
  BY <1>1, <1>2 DEF TypeOK, sizes
<1> QED BY <1>1, <1>3 DEF ClosedWithoutSession, Connection, AckIsForThis

\* The queue of readings does not touch the session.
LEMMA QueueStep == IInv /\ (Receive \/ Published \/ sendToMqttQueue) => IInv'
<1> SUFFICES ASSUME IInv, Receive \/ Published \/ sendToMqttQueue PROVE IInv'
  OBVIOUS
<1> USE DEF IInv
<1>1. /\ UNCHANGED <<mutex, mypacketid, mqtt_connection_status>>
      /\ UNCHANGED <<isconnected, ping_outstanding, last_sent, last_received, timer, next_packetid>>
      /\ UNCHANGED <<conn, toBroker, toClient, half, calm>>
      /\ \/ task_pc' = task_pc
         \/ task_pc \in {"loop", "published"} /\ task_pc' \in {"loop", "publish"}
      /\ credentials_fit' = credentials_fit /\ reading_fits' \in {reading_fits} \cup BOOLEAN
  BY DEF Receive, Published, sendToMqttQueue, client, sizes, net
<1>2. queue' \in 0 .. QUEUE_LENGTH
  BY SizeAssumption DEF Receive, Published, sendToMqttQueue, TypeOK
<1>3. TypeOK'
  BY <1>1, <1>2 DEF TypeOK, TaskPC
<1> QED BY <1>1, <1>3 DEF ClosedWithoutSession, Connection, AckIsForThis

\* The invariant holds in every reachable state.
THEOREM Invariance == Spec => []IInv
<1>1. IInv /\ [Next]_vars => IInv'
  <2> SUFFICES ASSUME IInv, [Next]_vars PROVE IInv'
    OBVIOUS
  <2>1. CASE mqtt_task
    BY <2>1, NetworkStep, ConnectStep, ConnackStep, PublishStep, PubackStep, QueueStep
       DEF mqtt_task
  <2>2. CASE UNCHANGED vars
    BY <2>2 DEF vars, client, sizes, net, IInv, TypeOK, ClosedWithoutSession, Connection, AckIsForThis
  <2> QED BY <2>1, <2>2, MQTTRunStep, QueueStep, BrokerStep, FaultStep, TickStep DEF Next
<1> QED BY <1>1, InitIInv, PTL DEF Spec

\* Timers, identifiers and the queue stay in their ranges.
THEOREM TypeCorrect == Spec => []TypeOK
<1>1. IInv => TypeOK
  BY DEF IInv
<1> QED BY <1>1, Invariance, PTL

\* The socket is closed, and MQTTConnect called, only when no session is
\* open, so that MQTTConnect never refuses.
THEOREM ClosedOnlyWithoutSession == Spec => []ClosedWithoutSession
<1>1. IInv => ClosedWithoutSession
  BY DEF IInv
<1> QED BY <1>1, Invariance, PTL

\* A publish that succeeded was acknowledged under its own identifier, for
\* every range of identifiers, although waitfor does not compare them.
THEOREM AcksMatch == Spec => []AckIsForThis
<1>1. IInv => AckIsForThis
  BY DEF IInv
<1> QED BY <1>1, Invariance, PTL
=============================================================================
