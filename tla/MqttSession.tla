---------------------------- MODULE MqttSession ----------------------------
(***************************************************************************)
(* The C++ client of paho.mqtt.embedded-c (MQTTClient/src/MQTTClient.h,    *)
(* built with QoS 1 and 2): one session that outlives its connections,     *)
(* with one outgoing publish kept for the next connection, a table of the  *)
(* QoS 2 messages being received and a table of message handlers; and a    *)
(* broker at the other end of a connection that may break at any time.     *)
(*                                                                         *)
(* The client is one thread: connect, publish and subscribe send a packet  *)
(* and then turn cycle until its answer comes (op says which), and yield   *)
(* turns cycle in between.  The application opens a new network connection *)
(* for every connect.  Whether a timer has expired is left open.           *)
(***************************************************************************)
EXTENDS Integers, Sequences, FiniteSets, FiniteSetsExt

CONSTANTS
    NULL,
    Outgoing,                      \* messages the application publishes
    Incoming,                      \* messages the broker has for the client
    Qos,                           \* QoS of each of them
    Filters,                       \* topic filters the application subscribes to
    TopicNames,                    \* topics a message may have
    MAX_PACKET_ID,
    MAX_INCOMING_QOS2_MESSAGES,
    MAX_MESSAGE_HANDLERS,
    MaxConnects, MaxCommands, MaxPings    \* bounds

ASSUME MqttSessionAssumption ==
    /\ MAX_PACKET_ID \in Nat \ {0} /\ MAX_INCOMING_QOS2_MESSAGES \in Nat \ {0}
    /\ MAX_MESSAGE_HANDLERS \in Nat \ {0}
    /\ MAX_INCOMING_QOS2_MESSAGES <= MAX_PACKET_ID
    /\ NULL \notin {"connack", "puback", "pubcomp", "suback", "unsuback"}
    /\ \A m \in Outgoing \cup Incoming : Qos[m] \in 1..2

VARIABLES
    cl,         \* the Client object
    op,         \* the call in progress: packet waited for, what it is about, within connect, late
    net,        \* connection: up, packets to the broker, packets to the client
    broker,     \* session kept by the broker
    option,     \* cleansession of the connect options
    published,  \* messages the application has published with QoS 1 or 2
    acked,      \* those whose publish has returned SUCCESS
    arrived,    \* those the broker has passed on
    delivered,  \* how often each incoming message was handed to deliverMessage
    left        \* what is left of the bounds

vars == <<cl, op, net, broker, option, published, acked, arrived, delivered, left>>

Ids == 1..MAX_PACKET_ID
Slots == 1..MAX_INCOMING_QOS2_MESSAGES
HandlerSlots == 1..MAX_MESSAGE_HANDLERS

Pkt(type, id, about) == [type |-> type, id |-> id, about |-> about]
Idle == [wait |-> NULL, about |-> NULL, connecting |-> FALSE, late |-> FALSE]
Wait(type, about) == [wait |-> type, about |-> about, connecting |-> FALSE, late |-> FALSE]

-----------------------------------------------------------------------------
(* Session state of the client. *)

cleanSession(c) ==
    [c EXCEPT !.handlers = [i \in HandlerSlots |-> NULL], !.inflightMsgid = 0, !.inflightQoS = 0,
              !.pubrel = FALSE, !.incoming = [i \in Slots |-> 0]]

closeSession_forgets_received(c) ==
    LET closed == [c EXCEPT !.ping_outstanding = FALSE, !.isconnected = FALSE,
                            !.incoming = [i \in Slots |-> 0]]
    IN  IF c.cleansession THEN cleanSession(closed) ELSE closed

closeSession(c) ==
    LET closed == [c EXCEPT !.ping_outstanding = FALSE, !.isconnected = FALSE]
    IN  IF c.cleansession THEN cleanSession(closed) ELSE closed

getNext(next) == IF next = MAX_PACKET_ID THEN 1 ELSE next + 1

isQoS2msgidFree(c, id) == \A i \in Slots : c.incoming[i] # id

useQoS2msgid(c, id) ==
    LET free == {i \in Slots : c.incoming[i] = 0}
    IN  IF free = {} THEN c ELSE [c EXCEPT !.incoming[Min(free)] = id]

freeQoS2msgid(c, id) ==
    LET used == {i \in Slots : c.incoming[i] = id}
    IN  IF used = {} THEN c ELSE [c EXCEPT !.incoming[Min(used)] = 0]

-----------------------------------------------------------------------------
(* Topic filters: strings of characters, with three special ones. *)

SEP == 0
PLUS == -1
HASH == -2

(* Where a wildcard leaves the position in the name. *)
SkipLevel_all(name, n) == Len(name)

SkipLevel(name, n) ==
    LET seps == {i \in n + 1..Len(name) : name[i] = SEP}
    IN  IF seps = {} THEN Len(name) ELSE Min(seps) - 1

isTopicMatched(filter, name) ==
    LET step[f \in 1..Len(filter) + 1, n \in 1..Len(name) + 1] ==
            IF \/ f > Len(filter) \/ n > Len(name)
               \/ name[n] = SEP /\ filter[f] # SEP
               \/ filter[f] \notin {PLUS, HASH, name[n]}
            THEN f = Len(filter) + 1 /\ n = Len(name) + 1
            ELSE CASE filter[f] = PLUS -> step[f + 1, SkipLevel(name, n) + 1]
                   [] filter[f] = HASH -> step[f + 1, Len(name) + 1]
                   [] OTHER -> step[f + 1, n + 1]
    IN  step[1, 1]

(* The handlers deliverMessage calls. *)
deliverMessage(c, name) ==
    {i \in HandlerSlots : /\ c.handlers[i] # NULL
                          /\ c.handlers[i] = name \/ isTopicMatched(c.handlers[i], name)}

(* A filter keeps its slot; otherwise the first free one, if there is any. *)
setMessageHandler(c, filter) ==
    LET same == {i \in HandlerSlots : c.handlers[i] = filter}
        free == {i \in HandlerSlots : c.handlers[i] = NULL}
    IN  IF same # {} THEN [ok |-> TRUE, c |-> c]
        ELSE IF free = {} THEN [ok |-> FALSE, c |-> c]
        ELSE [ok |-> TRUE, c |-> [c EXCEPT !.handlers[Min(free)] = filter]]

removeMessageHandler(c, filter) ==
    [c EXCEPT !.handlers = [i \in HandlerSlots |-> IF @[i] = filter THEN NULL ELSE @[i]]]

-----------------------------------------------------------------------------
(* Sending.  On a broken connection a packet is refused, or taken and lost.*)

Sent(n, ps) == IF n.up THEN [n EXCEPT !.toBroker = @ \o ps] ELSE n
Broken(n) == [up |-> FALSE, toBroker |-> <<>>, toClient |-> <<>>]

(* A call that ends without success closes the session, except connect,    *)
(* which never opened it.                                                  *)
GivesUp(c, n) ==
    /\ cl' = IF op.wait = NULL THEN c ELSE closeSession(c)
    /\ op' = Idle
    /\ net' = n
    /\ acked' = acked

(* publish(len, timer, qos): the kept publish goes out again, or a PUBREL  *)
(* for it.                                                                 *)
Resent(c) ==
    IF c.inflightQoS = 2 /\ c.pubrel THEN Pkt("pubrel", c.inflightMsgid, NULL)
    ELSE Pkt("publish", c.inflightMsgid, c.pubbuf)

AckOf(qos) == IF qos = 2 THEN "pubcomp" ELSE "puback"

(* The end of connect, once it has waited for CONNACK: whatever has come of*)
(* it, a publish that is in flight is sent again and its answer decides.   *)
ConnectGoesOn(c, success, n, late) ==
    IF c.inflightMsgid > 0
    THEN \/ /\ net' = Sent(n, <<Resent(c)>>)
            /\ op' = [wait |-> AckOf(c.inflightQoS), about |-> c.pubbuf, connecting |-> TRUE,
                      late |-> late]
            /\ cl' = c /\ acked' = acked
         \/ GivesUp(closeSession(c), Broken(n))
    ELSE /\ cl' = IF success THEN [c EXCEPT !.isconnected = TRUE, !.ping_outstanding = FALSE] ELSE c
         /\ op' = Idle /\ net' = n /\ acked' = acked

(* A call whose wait ended without the packet. *)
CallFails(c, n, late) ==
    IF op.wait = "connack" THEN ConnectGoesOn(c, FALSE, n, late) ELSE GivesUp(c, n)

(* cycle returns an error. *)
CycleFails(c, n) == CallFails(IF c.isconnected THEN closeSession(c) ELSE c, n, FALSE)

(* cycle returns the type of packet p. *)
CycleReturns(c, n, p) ==
    IF p.type # op.wait \/ op.wait = NULL
    THEN cl' = c /\ net' = n /\ UNCHANGED <<op, acked>>
    ELSE CASE p.type = "connack" -> ConnectGoesOn(c, p.about = "accepted", n, FALSE)
           [] p.type \in {"puback", "pubcomp"} ->
                LET settled == IF c.inflightMsgid = p.id THEN [c EXCEPT !.inflightMsgid = 0] ELSE c
                IN  /\ cl' = IF op.connecting
                             THEN [settled EXCEPT !.isconnected = TRUE, !.ping_outstanding = FALSE]
                             ELSE settled
                    /\ acked' = acked \cup {op.about}
                    /\ op' = Idle /\ net' = n
           [] p.type = "suback" ->
                LET set == setMessageHandler(c, op.about)
                IN  IF p.about = "refused" THEN cl' = c /\ op' = Idle /\ net' = n /\ acked' = acked
                    ELSE IF ~set.ok THEN GivesUp(c, n)
                    ELSE cl' = set.c /\ op' = Idle /\ net' = n /\ acked' = acked
           [] p.type = "unsuback" ->
                /\ cl' = removeMessageHandler(c, op.about)
                /\ op' = Idle /\ net' = n /\ acked' = acked

-----------------------------------------------------------------------------
(* cycle: what a packet does to the session, before its reply is sent and  *)
(* after; the reply; and whether a message is handed to deliverMessage.    *)

NoReply(c) == [before |-> c, after |-> c, reply |-> <<>>, hands |-> FALSE]

OnPublish(c, p) ==
    LET fresh == isQoS2msgidFree(c, p.id)
        used  == IF fresh THEN useQoS2msgid(c, p.id) ELSE c
    IN  IF Qos[p.about] = 1
        THEN [before |-> c, after |-> c, reply |-> <<Pkt("puback", p.id, NULL)>>, hands |-> TRUE]
        ELSE [before |-> used, after |-> used, reply |-> <<Pkt("pubrec", p.id, NULL)>>,
              hands |-> fresh /\ used # c]

OnPubrec(c, p) == [NoReply(c) EXCEPT !.reply = <<Pkt("pubrel", p.id, NULL)>>]

OnPubrel(c, p) ==
    [NoReply(c) EXCEPT !.reply = <<Pkt("pubcomp", p.id, NULL)>>, !.after = freeQoS2msgid(c, p.id)]

OnPingresp(c, p) == NoReply([c EXCEPT !.ping_outstanding = FALSE])

Handled(c, p) ==
    CASE p.type = "publish" -> OnPublish(c, p)
      [] p.type = "pubrec" -> OnPubrec(c, p)
      [] p.type = "pubrel" -> OnPubrel(c, p)
      [] p.type = "pingresp" -> OnPingresp(c, p)
      [] OTHER -> NoReply(c)

(* keepalive ends a cycle: nothing is due, PINGREQ is sent, or the session *)
(* has failed.                                                             *)
keepalive(c, n, p) ==
    \/ left' = left /\ CycleReturns(c, n, p)
    \/ /\ ~c.ping_outstanding /\ left.pings > 0 /\ left' = [left EXCEPT !.pings = @ - 1]
       /\ \/ CycleReturns([c EXCEPT !.ping_outstanding = TRUE],
                          Sent(n, <<Pkt("pingreq", 0, NULL)>>), p)
          \/ CycleFails(c, Broken(n))
    \/ c.ping_outstanding /\ left' = left /\ CycleFails(c, n)

(* Only a call in progress, or yield in an open session, turns cycle. *)
Turning == IF op.wait = NULL THEN cl.isconnected ELSE ~op.late

cycle ==
    /\ Turning /\ net.toClient # <<>>
    /\ LET p    == Head(net.toClient)
           h    == Handled(cl, p)
           rest == [net EXCEPT !.toClient = Tail(@)]
       IN  /\ delivered' = IF h.hands THEN [delivered EXCEPT ![p.about] = @ + 1] ELSE delivered
           /\ \/ keepalive(h.after, Sent(rest, h.reply), p)
              \/ h.reply # <<>> /\ CycleFails(h.before, Broken(rest)) /\ left' = left
    /\ UNCHANGED <<broker, option, published, arrived>>

(* Nothing to read: in time, or because the connection is gone. *)
cycle_nothing ==
    /\ Turning /\ net.toClient = <<>>
    /\ \/ net.up /\ keepalive(cl, net, Pkt("none", 0, NULL))
       \/ ~net.up /\ CycleFails(cl, net) /\ left' = left
    /\ UNCHANGED <<broker, option, published, arrived, delivered>>

waitfor_times_out ==
    /\ op.wait # NULL
    /\ CallFails(cl, net, TRUE)
    /\ UNCHANGED <<broker, option, published, arrived, delivered, left>>

-----------------------------------------------------------------------------
(* The application's calls. *)

connect ==
    /\ op.wait = NULL /\ ~cl.isconnected /\ left.connects > 0
    /\ left' = [left EXCEPT !.connects = @ - 1]
    /\ cl' = [cl EXCEPT !.cleansession = option]
    /\ \/ /\ net' = [up |-> TRUE, toBroker |-> <<Pkt("connect", 0, NULL)>>, toClient |-> <<>>]
          /\ op' = Wait("connack", NULL)
       \/ net' = Broken(net) /\ op' = op
    /\ UNCHANGED <<broker, option, published, acked, arrived, delivered>>

MayCall == op.wait = NULL /\ cl.isconnected

(* The packet is sent and waited for, or cannot be sent. *)
Call(c, p, wait, about) ==
    \/ /\ cl' = c /\ op' = Wait(wait, about) /\ net' = Sent(net, <<p>>)
    \/ /\ cl' = closeSession(c) /\ op' = op /\ net' = Broken(net)

publish_keeps_nothing(m) ==
    /\ MayCall /\ left.commands > 0 /\ m \notin published
    /\ left' = [left EXCEPT !.commands = @ - 1]
    /\ published' = published \cup {m}
    /\ LET id == getNext(cl.next)
       IN  Call([cl EXCEPT !.next = id], Pkt("publish", id, m), AckOf(Qos[m]), m)
    /\ UNCHANGED <<broker, option, acked, arrived, delivered>>

(* The message is kept before it is sent, unless sessions are clean. *)
publish(m) ==
    /\ MayCall /\ left.commands > 0 /\ m \notin published
    /\ left' = [left EXCEPT !.commands = @ - 1]
    /\ published' = published \cup {m}
    /\ LET id   == getNext(cl.next)
           kept == IF cl.cleansession THEN [cl EXCEPT !.next = id]
                   ELSE [cl EXCEPT !.next = id, !.pubbuf = m, !.inflightMsgid = id,
                                   !.inflightQoS = Qos[m], !.pubrel = FALSE]
       IN  Call(kept, Pkt("publish", id, m), AckOf(Qos[m]), m)
    /\ UNCHANGED <<broker, option, acked, arrived, delivered>>

(* A publish with QoS 0 has no identifier and takes the place of the kept  *)
(* one.                                                                    *)
publish_QOS0 ==
    /\ MayCall /\ left.commands > 0
    /\ left' = [left EXCEPT !.commands = @ - 1]
    /\ LET kept == IF cl.cleansession THEN cl
                   ELSE [cl EXCEPT !.pubbuf = NULL, !.inflightMsgid = 0, !.inflightQoS = 0,
                                   !.pubrel = FALSE]
       IN  \/ cl' = kept /\ net' = net
           \/ cl' = closeSession(kept) /\ net' = Broken(net)
    /\ UNCHANGED <<op, broker, option, published, acked, arrived, delivered>>

subscribe(filter) ==
    /\ MayCall /\ left.commands > 0
    /\ left' = [left EXCEPT !.commands = @ - 1]
    /\ LET id == getNext(cl.next)
       IN  Call([cl EXCEPT !.next = id], Pkt("subscribe", id, NULL), "suback", filter)
    /\ UNCHANGED <<broker, option, published, acked, arrived, delivered>>

unsubscribe(filter) ==
    /\ MayCall /\ left.commands > 0
    /\ left' = [left EXCEPT !.commands = @ - 1]
    /\ LET id == getNext(cl.next)
       IN  Call([cl EXCEPT !.next = id], Pkt("unsubscribe", id, NULL), "unsuback", filter)
    /\ UNCHANGED <<broker, option, published, acked, arrived, delivered>>

(* subscribe and unsubscribe without a connection. *)
subscribe_unconnected ==
    /\ op.wait = NULL /\ ~cl.isconnected
    /\ cl' = closeSession(cl)
    /\ UNCHANGED <<op, net, broker, option, published, acked, arrived, delivered, left>>

(* The application may also set a handler, or remove it, without a packet. *)
set_handler(filter) ==
    /\ op.wait = NULL /\ left.commands > 0
    /\ left' = [left EXCEPT !.commands = @ - 1]
    /\ cl' \in {setMessageHandler(cl, filter).c, removeMessageHandler(cl, filter)}
    /\ UNCHANGED <<op, net, broker, option, published, acked, arrived, delivered>>

(* Connected or not (bound: once for each connection). *)
disconnect ==
    /\ op.wait = NULL
    /\ \A i \in DOMAIN net.toBroker : net.toBroker[i].type # "disconnect"
    /\ cl' = closeSession(cl)
    /\ net' = Sent(net, <<Pkt("disconnect", 0, NULL)>>)
    /\ UNCHANGED <<op, broker, option, published, acked, arrived, delivered, left>>

-----------------------------------------------------------------------------
(* The broker and the network (external). *)

InFlight == {m \in Incoming : broker.out[m] \in {"sent", "rec"}}

(* What a session that goes on has to repeat. *)
Again ==
    LET order == CHOOSE s \in [1..Cardinality(InFlight) -> InFlight] :
                     \A m \in InFlight : \E i \in DOMAIN s : s[i] = m
    IN  [i \in DOMAIN order |->
            IF broker.out[order[i]] = "sent" THEN Pkt("publish", broker.id[order[i]], order[i])
            ELSE Pkt("pubrel", broker.id[order[i]], NULL)]

Answers(ps) == net' = [net EXCEPT !.toBroker = Tail(@), !.toClient = @ \o ps]

BrokerConnect ==
    /\ net.toBroker # <<>> /\ Head(net.toBroker).type = "connect"
    /\ \/ /\ option
          /\ broker' = [broker EXCEPT !.recv = {},
                          !.out = [m \in Incoming |-> IF @[m] = "done" THEN "done"
                                                     ELSE IF m \in InFlight THEN "dropped" ELSE @[m]]]
          /\ Answers(<<Pkt("connack", 0, "accepted")>>)
       \/ /\ ~option
          /\ Answers(<<Pkt("connack", 0, "accepted")>> \o Again)
          /\ broker' = broker
       \/ /\ Answers(<<Pkt("connack", 0, "refused")>>)
          /\ broker' = broker
    /\ UNCHANGED <<cl, op, option, published, acked, arrived, delivered, left>>

BrokerReceives ==
    /\ net.toBroker # <<>>
    /\ LET p  == Head(net.toBroker)
           is(m) == m \in InFlight /\ broker.id[m] = p.id
           mark(from, to) == [broker EXCEPT !.out = [m \in Incoming |->
                                 IF is(m) /\ @[m] = from THEN to ELSE @[m]]]
       IN  /\ p.type \in {"publish", "pubrel", "puback", "pubrec", "pubcomp", "subscribe",
                         "unsubscribe", "pingreq"}
           /\ arrived' = IF p.type = "publish" THEN arrived \cup {p.about} ELSE arrived
           /\ CASE p.type = "publish" ->
                     IF Qos[p.about] = 1 THEN broker' = broker /\ Answers(<<Pkt("puback", p.id, NULL)>>)
                     ELSE /\ broker' = [broker EXCEPT !.recv = @ \cup {p.id}]
                          /\ Answers(<<Pkt("pubrec", p.id, NULL)>>)
                [] p.type = "pubrel" ->
                     /\ broker' = [broker EXCEPT !.recv = @ \ {p.id}]
                     /\ Answers(<<Pkt("pubcomp", p.id, NULL)>>)
                [] p.type = "puback" -> broker' = mark("sent", "done") /\ Answers(<<>>)
                [] p.type = "pubrec" -> broker' = mark("sent", "rec") /\ Answers(<<Pkt("pubrel", p.id, NULL)>>)
                [] p.type = "pubcomp" -> broker' = mark("rec", "done") /\ Answers(<<>>)
                [] p.type = "subscribe" ->
                     /\ broker' = broker
                     /\ \E a \in {"granted", "refused"} : Answers(<<Pkt("suback", p.id, a)>>)
                [] p.type = "unsubscribe" -> broker' = broker /\ Answers(<<Pkt("unsuback", p.id, NULL)>>)
                [] p.type = "pingreq" -> broker' = broker /\ Answers(<<Pkt("pingresp", 0, NULL)>>)
    /\ UNCHANGED <<cl, op, option, published, acked, delivered, left>>

(* The broker has no more QoS 2 messages under way than the client's table *)
(* has room for.                                                           *)
BrokerPublish(m) ==
    /\ net.up /\ cl.isconnected /\ broker.out[m] = "unsent"
    /\ Cardinality(InFlight) < MAX_INCOMING_QOS2_MESSAGES
    /\ LET id == Min(Ids \ {broker.id[x] : x \in InFlight})
       IN  /\ broker' = [broker EXCEPT !.out[m] = "sent", !.id[m] = id]
           /\ net' = [net EXCEPT !.toClient = Append(@, Pkt("publish", id, m))]
    /\ UNCHANGED <<cl, op, option, published, acked, arrived, delivered, left>>

Breaks ==
    /\ net.up
    /\ net' = Broken(net)
    /\ UNCHANGED <<cl, op, broker, option, published, acked, arrived, delivered, left>>

-----------------------------------------------------------------------------
Init ==
    /\ option \in BOOLEAN
    /\ cl = closeSession([isconnected |-> FALSE, cleansession |-> TRUE, ping_outstanding |-> FALSE,
                          next |-> 0, pubbuf |-> NULL, inflightMsgid |-> 0, inflightQoS |-> 0,
                          pubrel |-> FALSE, incoming |-> <<>>, handlers |-> <<>>])
    /\ op = Idle
    /\ net = Broken(NULL)
    /\ broker = [recv |-> {}, out |-> [m \in Incoming |-> "unsent"], id |-> [m \in Incoming |-> 0]]
    /\ published = {} /\ acked = {} /\ arrived = {}
    /\ delivered = [m \in Incoming |-> 0]
    /\ left = [connects |-> MaxConnects, commands |-> MaxCommands, pings |-> MaxPings]

Next ==
    \/ connect \/ publish_QOS0 \/ subscribe_unconnected \/ disconnect
    \/ \E m \in Outgoing : publish(m)
    \/ \E f \in Filters : subscribe(f) \/ unsubscribe(f) \/ set_handler(f)
    \/ cycle \/ cycle_nothing \/ waitfor_times_out
    \/ BrokerConnect \/ BrokerReceives \/ Breaks
    \/ \E m \in Incoming : BrokerPublish(m)

Spec == Init /\ [][Next]_vars

-----------------------------------------------------------------------------
(* Every variable has its type. *)
TypeOK ==
    /\ cl.next \in 0..MAX_PACKET_ID /\ cl.inflightMsgid \in 0..MAX_PACKET_ID
    /\ cl.incoming \in [Slots -> 0..MAX_PACKET_ID]
    /\ cl.handlers \in [HandlerSlots -> Filters \cup {NULL}]
    /\ op.wait \in {NULL, "connack", "puback", "pubcomp", "suback", "unsuback"}
    /\ published \subseteq Outgoing /\ arrived \subseteq published

(* A QoS 2 message is handed to the application once: never again although *)
(* broker and client repeat whatever a broken connection left unanswered,  *)
(* and not never, once the broker has been told that it was received.      *)
(* A QoS 1 message the broker is rid of was handed over at least once.     *)
ExactlyOnce ==
    \A m \in Incoming :
        /\ Qos[m] = 2 => delivered[m] <= 1
        /\ broker.out[m] \in {"rec", "done"} => delivered[m] >= 1

(* publish only succeeds for a message the broker has, also when its       *)
(* answer came within a later connect; and with a session that is kept, a  *)
(* message the broker does not have is still in pubbuf, to be sent again.  *)
AtLeastOnce ==
    /\ acked \subseteq arrived
    /\ ~option => published \subseteq
                     arrived \cup (IF cl.inflightMsgid > 0 THEN {cl.pubbuf} ELSE {})

Levels(s) ==
    LET ends == {i \in 1..Len(s) + 1 : i = Len(s) + 1 \/ s[i] = SEP}
        from(e) == Max({0} \cup {i \in ends : i < e}) + 1
    IN  {[n |-> Cardinality({x \in ends : x <= e}), level |-> SubSeq(s, from(e), e - 1)] : e \in ends}

(* Matching level by level; # stands for one level or more. *)
Matches(filter, name) ==
    LET F == Levels(filter)
        N == Levels(name)
        hash == \E f \in F : f.level = <<HASH>>
    IN  /\ IF hash THEN Cardinality(F) <= Cardinality(N) ELSE Cardinality(F) = Cardinality(N)
        /\ \A f \in F : f.level \in {<<PLUS>>, <<HASH>>} \/ f \in N

(* deliverMessage calls exactly the handlers whose filters match the topic,*)
(* found by isTopicMatched in one pass over the characters, and none of    *)
(* them twice: setMessageHandler gives no filter two slots.                *)
RightHandlers ==
    /\ \A name \in TopicNames :
          deliverMessage(cl, name) =
              {i \in HandlerSlots : cl.handlers[i] # NULL /\ Matches(cl.handlers[i], name)}
    /\ \A i, j \in HandlerSlots :
          cl.handlers[i] # NULL /\ cl.handlers[i] = cl.handlers[j] => i = j
=============================================================================
