------------------------- MODULE MqttSessionProofs -------------------------
(***************************************************************************)
(* Proofs about the session of the C++ MQTT client (MQTTClient.h), for     *)
(* every range of packet identifiers, every size of the table of received  *)
(* QoS 2 messages, any messages each way and any number of connections,    *)
(* breaks, timeouts and repetitions.                                       *)
(*                                                                         *)
(* Both directions rest on one fact about the network: of each handshake   *)
(* (PUBLISH, PUBREC, PUBREL, PUBCOMP or PUBLISH, PUBACK) at most one       *)
(* packet is under way.  A connection starts with none, a packet is        *)
(* answered by the next one, and what is repeated is repeated on a new     *)
(* connection.                                                             *)
(***************************************************************************)
EXTENDS MqttSession, FiniteSetTheorems, WellFoundedInduction, TLAPS

Requests == {"publish", "pubrel"}
Replies  == {"puback", "pubrec", "pubcomp"}
Acks     == {"puback", "pubcomp"}
Waits    == {NULL, "connack", "puback", "pubcomp", "suback", "unsuback"}
Abouts   == Outgoing \cup Incoming \cup {NULL, "accepted", "refused", "granted"}
Others   == {"connect", "connack", "subscribe", "suback", "unsubscribe", "unsuback",
             "pingreq", "pingresp", "disconnect"}
Packet   == [type : Requests \cup Replies \cup Others, id : Nat, about : Abouts]
States   == {"unsent", "sent", "rec", "done", "dropped"}

-----------------------------------------------------------------------------
(* The invariant, of a Client object c, a call o, a connection n, a broker *)
(* b, deliveries d, published messages pub and arrived ones arr: within a  *)
(* step they are not yet the values of the variables.                      *)

ClientType(c) ==
    /\ c = [isconnected |-> c.isconnected, cleansession |-> c.cleansession,
            ping_outstanding |-> c.ping_outstanding, next |-> c.next, pubbuf |-> c.pubbuf,
            inflightMsgid |-> c.inflightMsgid, inflightQoS |-> c.inflightQoS, pubrel |-> c.pubrel,
            incoming |-> c.incoming, handlers |-> c.handlers]
    /\ c.next \in Nat /\ c.inflightMsgid \in Nat /\ c.pubbuf \in Outgoing \cup {NULL}
    /\ c.incoming \in [Slots -> Nat]

OpType(o) ==
    /\ o = [wait |-> o.wait, about |-> o.about, connecting |-> o.connecting, late |-> o.late]
    /\ o.wait \in Waits

NetType(n) ==
    /\ n = [up |-> n.up, toBroker |-> n.toBroker, toClient |-> n.toClient]
    /\ n.toBroker \in Seq(Packet) /\ n.toClient \in Seq(Packet)

BrokerType(b) ==
    /\ b = [recv |-> b.recv, out |-> b.out, id |-> b.id]
    /\ b.out \in [Incoming -> States] /\ b.id \in [Incoming -> Nat]

Types(c, o, n, b, d) ==
    ClientType(c) /\ OpType(o) /\ NetType(n) /\ BrokerType(b) /\ d \in [Incoming -> Nat]

(* The client is turning cycle, or may. *)
Live(c, o) == c.isconnected \/ o.wait # NULL

(* No packet of s has one of these types. *)
No(s, types) == \A i \in DOMAIN s : s[i].type \notin types

(* The handshake of a publish of the client: nothing of it is under way    *)
(* unless publish or connect waits for its end, and then one packet, about *)
(* the message it waits for; whatever the broker sends shows that it has   *)
(* the message.                                                            *)
Outward(c, o, n, arr) ==
    /\ Live(c, o) /\ o.wait \notin Acks => No(n.toBroker, Requests) /\ No(n.toClient, Replies)
    /\ o.wait \in Acks =>
          /\ \A i, j \in DOMAIN n.toBroker :
                n.toBroker[i].type \in Requests /\ n.toBroker[j].type \in Requests => i = j
          /\ \A i, j \in DOMAIN n.toClient :
                n.toClient[i].type \in Replies /\ n.toClient[j].type \in Replies => i = j
          /\ No(n.toBroker, Requests) \/ No(n.toClient, Replies)
          /\ \A i \in DOMAIN n.toBroker :
                /\ n.toBroker[i].type = "publish" => n.toBroker[i].about = o.about
                /\ n.toBroker[i].type = "pubrel" => o.about \in arr
          /\ \A i \in DOMAIN n.toClient : n.toClient[i].type \in Replies => o.about \in arr

(* What the Client object keeps of its last publish. *)
Kept(c, o, pub, arr) ==
    /\ ~c.pubrel
    /\ Live(c, o) => c.cleansession = option
    /\ ~option /\ pub # {} => ~c.cleansession
    /\ ~option => pub \subseteq arr \cup (IF c.inflightMsgid > 0 THEN {c.pubbuf} ELSE {})
    /\ ~option /\ c.isconnected /\ o.wait \notin Acks /\ c.inflightMsgid > 0 => c.pubbuf \in arr
    /\ ~option /\ o.wait \in Acks => o.about = c.pubbuf

Flying(b) == {m \in Incoming : b.out[m] \in {"sent", "rec"}}

(* The messages the broker has under way have different identifiers, and   *)
(* the client's table has room for them.                                   *)
Numbered(b) ==
    /\ IsFiniteSet(Flying(b)) /\ Cardinality(Flying(b)) <= MAX_INCOMING_QOS2_MESSAGES
    /\ \A m \in Flying(b) : b.id[m] # 0
    /\ \A m, k \in Flying(b) : b.id[m] = b.id[k] => m = k

(* At most one packet under way for each identifier the broker has given:  *)
(* a request in t, to the client, or a reply in s, to the broker.          *)
Once(s, t) ==
    /\ \A i, j \in DOMAIN s : s[i].type \in Replies /\ s[j].type \in Replies /\ s[i].id = s[j].id => i = j
    /\ \A i, j \in DOMAIN t : t[i].type \in Requests /\ t[j].type \in Requests /\ t[i].id = t[j].id => i = j
    /\ \A i \in DOMAIN s, j \in DOMAIN t :
          ~(s[i].type \in Replies /\ t[j].type \in Requests /\ s[i].id = t[j].id)

(* A reply is for a message that is under way and was delivered; PUBACK is *)
(* only sent with QoS 1, and PUBCOMP once the identifier is forgotten.     *)
ReplyFor(p, c, b, d) ==
    \E m \in Flying(b) : /\ b.id[m] = p.id /\ d[m] >= 1
                         /\ p.type = "puback" => Qos[m] = 1
                         /\ p.type = "pubcomp" => \A i \in Slots : c.incoming[i] # p.id

PublishOf(p, b, d) ==
    /\ p.about \in Incoming /\ b.out[p.about] = "sent" /\ b.id[p.about] = p.id
    /\ option /\ Qos[p.about] = 2 => d[p.about] = 0

ReleaseOf(p, b) == \E m \in Flying(b) : b.id[m] = p.id /\ b.out[m] = "rec"

(* What the packets under way stand for. *)
UnderWay(c, n, b, d) ==
    /\ \A i \in DOMAIN n.toBroker : n.toBroker[i].type \in Replies => ReplyFor(n.toBroker[i], c, b, d)
    /\ \A i \in DOMAIN n.toClient :
          /\ n.toClient[i].type = "publish" => PublishOf(n.toClient[i], b, d)
          /\ n.toClient[i].type = "pubrel" => ReleaseOf(n.toClient[i], b)

(* The table of received identifiers: each once, and only of messages      *)
(* under way that were delivered; in a session that is kept, of all those  *)
(* that may be published again.                                            *)
Table(c, b, d) ==
    /\ \A i, j \in Slots : c.incoming[i] = c.incoming[j] /\ c.incoming[i] # 0 => i = j
    /\ \A i \in Slots : c.incoming[i] # 0 =>
          \E m \in Flying(b) : Qos[m] = 2 /\ b.id[m] = c.incoming[i] /\ d[m] >= 1
    /\ ~option => \A m \in Flying(b) : Qos[m] = 2 /\ b.out[m] = "sent" /\ d[m] >= 1 =>
          \E i \in Slots : c.incoming[i] = b.id[m]
    /\ ~option /\ c.cleansession => \A m \in Incoming : b.out[m] = "unsent"

Deliveries(b, d) ==
    \A m \in Incoming :
        /\ Qos[m] = 2 => d[m] <= 1
        /\ b.out[m] = "unsent" => d[m] = 0
        /\ b.out[m] \in {"rec", "done"} => d[m] >= 1

(* The beginning of a connection, and the client between two of them: a    *)
(* clean session has nothing in its table, and nothing on its way there.   *)
Fresh(c, o, n) ==
    /\ o.wait = "connack" => ~c.isconnected
    /\ \A i \in DOMAIN n.toBroker : n.toBroker[i].type = "connect" =>
          i = 1 /\ n.toClient = <<>> /\ ~c.isconnected /\ No(n.toBroker, Replies)
    /\ option /\ ~c.isconnected => \A i \in Slots : c.incoming[i] = 0
    /\ option /\ ~c.isconnected /\ o.wait # NULL => No(n.toClient, {"publish"})

Inward(c, o, n, b, d) ==
    /\ Numbered(b) /\ Once(n.toBroker, n.toClient) /\ UnderWay(c, n, b, d)
    /\ Table(c, b, d) /\ Deliveries(b, d) /\ Fresh(c, o, n)

Good(c, o, n, b, d, pub, arr) ==
    Types(c, o, n, b, d) /\ Outward(c, o, n, arr) /\ Kept(c, o, pub, arr) /\ Inward(c, o, n, b, d)

IInv ==
    /\ Good(cl, op, net, broker, delivered, published, arrived)
    /\ acked \subseteq arrived /\ published \subseteq Outgoing

-----------------------------------------------------------------------------
(* Sequences of packets. *)

LEMMA TailFacts ==
    ASSUME NEW s \in Seq(Packet), s # <<>>
    PROVE  /\ Tail(s) \in Seq(Packet) /\ Head(s) = s[1] /\ 1 \in DOMAIN s
           /\ s[1] \in Packet
           /\ \A i \in DOMAIN Tail(s) : i + 1 \in DOMAIN s /\ Tail(s)[i] = s[i + 1] /\ i + 1 # 1
           /\ \A i, j \in DOMAIN Tail(s) : i + 1 = j + 1 => i = j
OBVIOUS

LEMMA ConcatFacts ==
    ASSUME NEW s \in Seq(Packet), NEW p \in Packet
    PROVE  /\ s \o <<p>> \in Seq(Packet)
           /\ \A i \in DOMAIN s : i \in DOMAIN (s \o <<p>>) /\ (s \o <<p>>)[i] = s[i]
           /\ Len(s) + 1 \in DOMAIN (s \o <<p>>) /\ (s \o <<p>>)[Len(s) + 1] = p
           /\ \A i \in DOMAIN (s \o <<p>>) : i \in DOMAIN s \/ i = Len(s) + 1
           /\ Len(s) + 1 \notin DOMAIN s
OBVIOUS

(* Min of a set of naturals is one of its elements. *)
LEMMA MinIsElement ==
    ASSUME NEW S \in SUBSET Nat, S # {}
    PROVE  Min(S) \in S
<1>1. \E x \in S : \A y \in S : <<y, x>> \notin OpToRel(<, Nat)
  BY NatLessThanWellFounded, WFMin
<1>2. \A x, y \in S : y < x => <<y, x>> \in OpToRel(<, Nat)
  BY DEF OpToRel
<1>3. \E x \in S : \A y \in S : ~(y < x)
  BY <1>1, <1>2
<1>4. \E x \in S : \A y \in S : x =< y
  BY <1>3
<1>. QED
  BY <1>4 DEF Min

-----------------------------------------------------------------------------
(* Changes that the invariant does not see, or that only take away. *)

LEMMA NullWaits == NULL \notin Acks /\ NULL # "connack" /\ "connack" \notin Acks
BY MqttSessionAssumption DEF Acks

LEMMA IdleFacts == OpType(Idle) /\ Idle.wait = NULL /\ Idle.wait \notin Acks
BY NullWaits DEF OpType, Idle, Waits

(* The fields the invariant depends on. *)
LEMMA SameClient ==
    ASSUME NEW c, NEW o, NEW n, NEW b, NEW d, NEW pub, NEW arr, Good(c, o, n, b, d, pub, arr),
           NEW k, ClientType(k),
           k.isconnected = c.isconnected, k.cleansession = c.cleansession, k.pubbuf = c.pubbuf,
           k.inflightMsgid = c.inflightMsgid, k.pubrel = c.pubrel, k.incoming = c.incoming
    PROVE  Good(k, o, n, b, d, pub, arr)
<1>1. Types(k, o, n, b, d)
  BY DEF Good, Types
<1>2. Outward(k, o, n, arr)
  BY DEF Good, Outward, Live
<1>3. Kept(k, o, pub, arr)
  BY DEF Good, Kept, Live
<1>4. Numbered(b) /\ Once(n.toBroker, n.toClient) /\ Deliveries(b, d)
  BY DEF Good, Inward
<1>5. UnderWay(k, n, b, d)
  BY DEF Good, Inward, UnderWay, ReplyFor
<1>6. Table(k, b, d)
  BY DEF Good, Inward, Table
<1>7. Fresh(k, o, n)
  BY DEF Good, Inward, Fresh
<1>. QED
  BY <1>1, <1>2, <1>3, <1>4, <1>5, <1>6, <1>7 DEF Good, Inward

(* A call that waits for nothing is none. *)
LEMMA NoCall ==
    ASSUME NEW c, NEW o, NEW n, NEW b, NEW d, NEW pub, NEW arr, Good(c, o, n, b, d, pub, arr),
           NEW q, OpType(q), q.wait = o.wait, q.about = o.about \/ q.wait \notin Acks
    PROVE  Good(c, q, n, b, d, pub, arr)
<1>1. Types(c, q, n, b, d)
  BY DEF Good, Types
<1>2. Outward(c, q, n, arr)
  BY DEF Good, Outward, Live
<1>3. Kept(c, q, pub, arr)
  BY DEF Good, Kept, Live
<1>4. Fresh(c, q, n)
  BY DEF Good, Inward, Fresh
<1>. QED
  BY <1>1, <1>2, <1>3, <1>4 DEF Good, Inward

(* The connection breaks. *)
LEMMA GoodBroken ==
    ASSUME NEW c, NEW o, NEW n, NEW b, NEW d, NEW pub, NEW arr, Good(c, o, n, b, d, pub, arr)
    PROVE  Good(c, o, Broken(n), b, d, pub, arr)
<1>1. Broken(n).toBroker = <<>> /\ Broken(n).toClient = <<>> /\ NetType(Broken(n))
  BY DEF Broken, NetType
<1>2. DOMAIN Broken(n).toBroker = {} /\ DOMAIN Broken(n).toClient = {}
  BY <1>1
<1>3. Outward(c, o, Broken(n), arr)
  BY <1>2 DEF Good, Outward, No
<1>4. Once(Broken(n).toBroker, Broken(n).toClient) /\ UnderWay(c, Broken(n), b, d)
  BY <1>2 DEF Once, UnderWay
<1>5. Fresh(c, o, Broken(n))
  BY <1>2 DEF Good, Inward, Fresh, No
<1>. QED
  BY <1>1, <1>3, <1>4, <1>5 DEF Good, Types, Inward

(* The client sends a packet that belongs to no handshake: PINGREQ,        *)
(* SUBSCRIBE, UNSUBSCRIBE, DISCONNECT.                                     *)
LEMMA GoodSent ==
    ASSUME NEW c, NEW o, NEW n, NEW b, NEW d, NEW pub, NEW arr, Good(c, o, n, b, d, pub, arr),
           NEW p \in Packet, p.type \notin Requests \cup Replies \cup {"connect"}
    PROVE  Good(c, o, Sent(n, <<p>>), b, d, pub, arr)
<1>1. CASE ~n.up
  BY <1>1 DEF Sent
<1>2. CASE n.up
  <2> DEFINE s == n.toBroker
             t == n.toClient
             u == s \o <<p>>
             k == Sent(n, <<p>>)
  <2>1. s \in Seq(Packet) /\ t \in Seq(Packet)
    BY DEF Good, Types, NetType
  <2>2. k = [up |-> n.up, toBroker |-> u, toClient |-> t]
    BY <1>2 DEF Sent, Good, Types, NetType
  <2>3. k.toBroker = u /\ k.toClient = t
    BY <2>2
  <2>4. /\ u \in Seq(Packet)
        /\ \A i \in DOMAIN s : i \in DOMAIN u /\ u[i] = s[i]
        /\ \A i \in DOMAIN u : i \in DOMAIN s \/ u[i] = p
    BY <2>1, ConcatFacts
  <2> HIDE DEF k, u
  <2>5. Types(c, o, k, b, d)
    BY <2>1, <2>2, <2>3, <2>4 DEF Good, Types, NetType
  <2>6. Outward(c, o, k, arr)
    BY <2>3, <2>4 DEF Good, Outward, No, Requests
  <2>7. Once(u, t)
    BY <2>4 DEF Good, Inward, Once
  <2>8. UnderWay(c, k, b, d)
    BY <2>3, <2>4 DEF Good, Inward, UnderWay
  <2>9. Fresh(c, o, k)
    BY <2>3, <2>4 DEF Good, Inward, Fresh, No
  <2>. QED
    BY <2>3, <2>5, <2>6, <2>7, <2>8, <2>9 DEF Good, Inward, k
<1>. QED
  BY <1>1, <1>2

LEMMA CloseFields ==
    ASSUME NEW c, ClientType(c)
    PROVE  /\ ClientType(closeSession(c))
           /\ closeSession(c).isconnected = FALSE
           /\ closeSession(c).cleansession = c.cleansession
           /\ closeSession(c).pubbuf = c.pubbuf
           /\ c.cleansession => /\ closeSession(c).inflightMsgid = 0 /\ closeSession(c).pubrel = FALSE
                                /\ \A i \in Slots : closeSession(c).incoming[i] = 0
           /\ ~c.cleansession => /\ closeSession(c).inflightMsgid = c.inflightMsgid
                                 /\ closeSession(c).pubrel = c.pubrel
                                 /\ closeSession(c).incoming = c.incoming
<1>1. CASE c.cleansession
  <2>1. closeSession(c) = [isconnected |-> FALSE, cleansession |-> c.cleansession,
            ping_outstanding |-> FALSE, next |-> c.next, pubbuf |-> c.pubbuf,
            inflightMsgid |-> 0, inflightQoS |-> 0, pubrel |-> FALSE,
            incoming |-> [i \in Slots |-> 0], handlers |-> [i \in HandlerSlots |-> NULL]]
    BY <1>1 DEF closeSession, cleanSession, ClientType
  <2>. QED
    BY <1>1, <2>1 DEF ClientType
<1>2. CASE ~c.cleansession
  <2>1. closeSession(c) = [isconnected |-> FALSE, cleansession |-> c.cleansession,
            ping_outstanding |-> FALSE, next |-> c.next, pubbuf |-> c.pubbuf,
            inflightMsgid |-> c.inflightMsgid, inflightQoS |-> c.inflightQoS, pubrel |-> c.pubrel,
            incoming |-> c.incoming, handlers |-> c.handlers]
    BY <1>2 DEF closeSession, ClientType
  <2>. QED
    BY <1>2, <2>1 DEF ClientType
<1>. QED
  BY <1>1, <1>2

(* Closing the session, as every failure does in the end: a clean one is   *)
(* forgotten, by client and broker alike; the other one is kept.           *)
LEMMA GoodClosed ==
    ASSUME NEW c, NEW o, NEW n, NEW b, NEW d, NEW pub, NEW arr, Good(c, o, n, b, d, pub, arr)
    PROVE  Good(closeSession(c), Idle, n, b, d, pub, arr)
<1> DEFINE k == closeSession(c)
<1>1. /\ ClientType(k) /\ k.isconnected = FALSE
      /\ k.cleansession = c.cleansession /\ k.pubbuf = c.pubbuf
      /\ c.cleansession => /\ k.inflightMsgid = 0 /\ k.pubrel = FALSE
                           /\ \A i \in Slots : k.incoming[i] = 0
      /\ ~c.cleansession => /\ k.inflightMsgid = c.inflightMsgid /\ k.pubrel = c.pubrel
                            /\ k.incoming = c.incoming
  BY CloseFields DEF Good, Types
<1> HIDE DEF k
<1>2. Types(k, Idle, n, b, d)
  BY <1>1, IdleFacts DEF Good, Types
<1>3. Outward(k, Idle, n, arr)
  BY <1>1, IdleFacts DEF Outward, Live
<1>4. Kept(k, Idle, pub, arr)
  <2>1. CASE c.cleansession
    <3>1. ~option => pub = {}
      BY <2>1 DEF Good, Kept
    <3>. QED
      BY <1>1, <2>1, <3>1, IdleFacts DEF Kept, Live
  <2>2. CASE ~c.cleansession
    BY <1>1, <2>2, IdleFacts DEF Good, Kept, Live
  <2>. QED
    BY <2>1, <2>2
<1>5. UnderWay(k, n, b, d)
  <2>1. CASE c.cleansession
    <3>1. \A m \in Flying(b) : b.id[m] # 0
      BY DEF Good, Inward, Numbered
    <3>2. \A p : ReplyFor(p, c, b, d) => ReplyFor(p, k, b, d)
      BY <1>1, <2>1, <3>1 DEF ReplyFor
    <3>. QED
      BY <3>2 DEF Good, Inward, UnderWay
  <2>2. CASE ~c.cleansession
    BY <1>1, <2>2 DEF Good, Inward, UnderWay, ReplyFor
  <2>. QED
    BY <2>1, <2>2
<1>6. Table(k, b, d)
  <2>1. CASE c.cleansession
    <3>1. ~option => Flying(b) = {}
      BY <2>1 DEF Good, Inward, Table, Flying
    <3>. QED
      BY <1>1, <2>1, <3>1 DEF Good, Inward, Table
  <2>2. CASE ~c.cleansession
    BY <1>1, <2>2 DEF Good, Inward, Table
  <2>. QED
    BY <2>1, <2>2
<1>7. Fresh(k, Idle, n)
  <2>1. option => \A i \in Slots : k.incoming[i] = 0
    <3>1. CASE c.cleansession
      BY <1>1, <3>1
    <3>2. CASE ~c.cleansession
      <4>1. option => ~Live(c, o)
        BY <3>2 DEF Good, Kept
      <4>. QED
        BY <1>1, <3>2, <4>1 DEF Good, Inward, Fresh, Live
    <3>. QED
      BY <3>1, <3>2
  <2>. QED
    BY <1>1, <2>1, IdleFacts, NullWaits DEF Good, Inward, Fresh
<1>. QED
  BY <1>2, <1>3, <1>4, <1>5, <1>6, <1>7 DEF Good, Inward, k

-----------------------------------------------------------------------------
(* The ends of a call.  d is what was delivered in this step so far; the   *)
(* broker and the history of the messages do not change.                   *)

Now(c, o, n, d) == Good(c, o, n, broker, d, published, arrived)

After(d) == Now(cl', op', net', d) /\ acked' \subseteq arrived

LEMMA GivesUpIsGood ==
    ASSUME NEW c, NEW n, NEW d, Now(c, op, n, d), acked \subseteq arrived, GivesUp(c, n)
    PROVE  After(d)
<1>1. CASE op.wait = NULL
  BY <1>1, NoCall, IdleFacts DEF GivesUp, Now, After
<1>2. CASE op.wait # NULL
  BY <1>2, GoodClosed DEF GivesUp, Now, After
<1>. QED
  BY <1>1, <1>2

(* Giving up in a session that has just been closed. *)
LEMMA ClosedGivesUp ==
    ASSUME NEW c, NEW n, NEW d, Now(c, op, n, d), acked \subseteq arrived,
           GivesUp(closeSession(c), n)
    PROVE  After(d)
<1>1. Now(closeSession(c), Idle, n, d)
  BY GoodClosed DEF Now
<1>2. Now(closeSession(closeSession(c)), Idle, n, d)
  BY <1>1, GoodClosed DEF Now
<1>. QED
  BY <1>1, <1>2 DEF GivesUp, After

LEMMA ResentIsPacket ==
    ASSUME NEW c, ClientType(c), ~c.pubrel
    PROVE  Resent(c) \in Packet /\ Resent(c).type = "publish" /\ Resent(c).about = c.pubbuf
<1>1. Resent(c) = [type |-> "publish", id |-> c.inflightMsgid, about |-> c.pubbuf]
  BY DEF Resent, Pkt
<1>2. c.inflightMsgid \in Nat /\ c.pubbuf \in Abouts
  BY DEF ClientType, Abouts
<1>. QED
  BY <1>1, <1>2 DEF Packet, Requests

(* connect sends the kept publish again: the one packet of its handshake.  *)
LEMMA GoodResent ==
    ASSUME NEW c, NEW n, NEW d, NEW late, Now(c, op, n, d), op.wait = "connack",
           NEW o, o = [wait |-> AckOf(c.inflightQoS), about |-> c.pubbuf, connecting |-> TRUE,
                       late |-> late]
    PROVE  Now(c, o, Sent(n, <<Resent(c)>>), d)
<1> DEFINE s == n.toBroker
           t == n.toClient
           p == Resent(c)
           u == s \o <<p>>
           k == Sent(n, <<p>>)
<1>1. p \in Packet /\ p.type = "publish" /\ p.about = c.pubbuf
  BY ResentIsPacket DEF Now, Good, Types, Kept
<1>2. o.wait \in Acks /\ o.about = c.pubbuf /\ OpType(o) /\ o.wait # NULL /\ o.wait # "connack"
  BY NullWaits DEF AckOf, Acks, OpType, Waits
<1>3. s \in Seq(Packet) /\ t \in Seq(Packet)
  BY DEF Now, Good, Types, NetType
<1>4. No(s, Requests) /\ No(t, Replies)
  BY NullWaits DEF Now, Good, Outward, Live
<1>5. /\ k.toBroker = s \/ k.toBroker = u
      /\ k.toClient = t /\ k = [up |-> n.up, toBroker |-> k.toBroker, toClient |-> t]
  <2>1. CASE n.up
    <3>1. k = [up |-> n.up, toBroker |-> u, toClient |-> t]
      BY <2>1 DEF Sent, Now, Good, Types, NetType
    <3>. QED
      BY <3>1
  <2>2. CASE ~n.up
    BY <2>2 DEF Sent, Now, Good, Types, NetType
  <2>. QED
    BY <2>1, <2>2
<1>6. /\ u \in Seq(Packet)
      /\ \A i \in DOMAIN s : i \in DOMAIN u /\ u[i] = s[i]
      /\ \A i \in DOMAIN u : i \in DOMAIN s \/ (i = Len(s) + 1 /\ u[i] = p)
  BY <1>1, <1>3, ConcatFacts
<1> HIDE DEF k, u, p
<1>7. Types(c, o, k, broker, d)
  BY <1>2, <1>3, <1>5, <1>6 DEF Now, Good, Types, NetType
<1>8. Outward(c, o, k, arrived)
  BY <1>1, <1>2, <1>4, <1>5, <1>6 DEF Outward, No, Requests
<1>9. Kept(c, o, published, arrived)
  BY <1>2, NullWaits DEF Now, Good, Kept, Live
<1>10. Once(k.toBroker, k.toClient)
  BY <1>1, <1>5, <1>6 DEF Now, Good, Inward, Once, Replies
<1>11. UnderWay(c, k, broker, d)
  BY <1>1, <1>5, <1>6 DEF Now, Good, Inward, UnderWay, Replies
<1>12. Fresh(c, o, k)
  BY <1>1, <1>2, <1>5, <1>6, NullWaits DEF Now, Good, Inward, Fresh, No, Replies
<1>. QED
  BY <1>7, <1>8, <1>9, <1>10, <1>11, <1>12 DEF Now, Good, Inward, k, p

(* A call returns with nothing of its handshake left; connected only when  *)
(* the broker has taken the CONNECT.                                       *)
LEMMA GoodReturn ==
    ASSUME NEW c, NEW o, NEW n, NEW d, Now(c, o, n, d), o.wait # NULL,
           No(n.toBroker, Requests \cup {"connect"}), No(n.toClient, Replies),
           NEW k, ClientType(k), ~k.isconnected => ~c.isconnected,
           k.cleansession = c.cleansession, k.pubbuf = c.pubbuf,
           k.pubrel = c.pubrel, k.incoming = c.incoming,
           k.inflightMsgid \in {0, c.inflightMsgid},
           ~option /\ c.inflightMsgid > 0 => c.pubbuf \in arrived
    PROVE  Now(k, Idle, n, d)
<1>1. Types(k, Idle, n, broker, d)
  BY IdleFacts DEF Now, Good, Types
<1>2. Outward(k, Idle, n, arrived)
  BY IdleFacts DEF Outward, No
<1>3. Kept(k, Idle, published, arrived)
  <2>1. c.cleansession = option /\ ~c.pubrel
    BY DEF Now, Good, Kept, Live
  <2>2. ASSUME ~option
        PROVE  published \subseteq arrived \cup (IF k.inflightMsgid > 0 THEN {k.pubbuf} ELSE {})
    BY <2>2 DEF Now, Good, Kept
  <2>3. ~option /\ k.inflightMsgid > 0 => k.pubbuf \in arrived
    OBVIOUS
  <2>. QED
    BY <2>1, <2>2, <2>3, IdleFacts DEF Kept, Live, Now, Good
<1>4. UnderWay(k, n, broker, d)
  BY DEF Now, Good, Inward, UnderWay, ReplyFor
<1>5. Table(k, broker, d)
  BY DEF Now, Good, Inward, Table
<1>6. Fresh(k, Idle, n)
  BY IdleFacts, NullWaits DEF Now, Good, Inward, Fresh, No
<1>. QED
  BY <1>1, <1>2, <1>3, <1>4, <1>5, <1>6 DEF Now, Good, Inward

LEMMA ConnectGoesOnIsGood ==
    ASSUME NEW c, NEW n, NEW d, NEW success, NEW late, Now(c, op, n, d), acked \subseteq arrived,
           op.wait = "connack", success => No(n.toBroker, {"connect"}),
           ConnectGoesOn(c, success, n, late)
    PROVE  After(d)
<1>1. CASE c.inflightMsgid > 0
  <2>1. CASE GivesUp(closeSession(c), Broken(n))
    <3>1. Now(c, op, Broken(n), d)
      BY GoodBroken DEF Now
    <3>. QED
      BY <2>1, <3>1, ClosedGivesUp
  <2>2. CASE ~GivesUp(closeSession(c), Broken(n))
    <3>1. /\ net' = Sent(n, <<Resent(c)>>) /\ cl' = c /\ acked' = acked
          /\ op' = [wait |-> AckOf(c.inflightQoS), about |-> c.pubbuf, connecting |-> TRUE,
                    late |-> late]
      BY <1>1, <2>2 DEF ConnectGoesOn
    <3>2. Now(c, op', Sent(n, <<Resent(c)>>), d)
      BY <3>1, GoodResent
    <3>. QED
      BY <3>1, <3>2 DEF After
  <2>. QED
    BY <2>1, <2>2
<1>2. CASE ~(c.inflightMsgid > 0)
  <2>1. op' = Idle /\ net' = n /\ acked' = acked
    BY <1>2 DEF ConnectGoesOn
  <2>2. CASE success
    <3>1. cl' = [c EXCEPT !.isconnected = TRUE, !.ping_outstanding = FALSE]
      BY <1>2, <2>2 DEF ConnectGoesOn
    <3>2. cl' = [isconnected |-> TRUE, cleansession |-> c.cleansession,
            ping_outstanding |-> FALSE, next |-> c.next, pubbuf |-> c.pubbuf,
            inflightMsgid |-> c.inflightMsgid, inflightQoS |-> c.inflightQoS, pubrel |-> c.pubrel,
            incoming |-> c.incoming, handlers |-> c.handlers]
      BY <3>1 DEF Now, Good, Types, ClientType
    <3>3. /\ ClientType(cl') /\ cl'.isconnected /\ cl'.cleansession = c.cleansession
          /\ cl'.pubbuf = c.pubbuf /\ cl'.pubrel = c.pubrel /\ cl'.incoming = c.incoming
          /\ cl'.inflightMsgid = c.inflightMsgid
      BY <3>2 DEF Now, Good, Types, ClientType
    <3>4. No(n.toBroker, Requests) /\ No(n.toClient, Replies) /\ op.wait # NULL
      BY NullWaits DEF Now, Good, Outward, Live
    <3>5. No(n.toBroker, Requests \cup {"connect"})
      BY <2>2, <3>4 DEF No
    <3>6. Now(cl', Idle, n, d)
      BY <1>2, <3>3, <3>4, <3>5, GoodReturn
    <3>. QED
      BY <2>1, <3>6 DEF After
  <2>3. CASE ~success
    <3>1. cl' = c
      BY <1>2, <2>3 DEF ConnectGoesOn
    <3>2. ~c.isconnected
      BY DEF Now, Good, Inward, Fresh
    <3>3. Now(c, Idle, n, d)
      <4>1. Types(c, Idle, n, broker, d)
        BY IdleFacts DEF Now, Good, Types
      <4>2. Outward(c, Idle, n, arrived)
        BY <3>2, IdleFacts DEF Outward, Live
      <4>3. Kept(c, Idle, published, arrived)
        BY <3>2, IdleFacts DEF Now, Good, Kept, Live
      <4>4. Fresh(c, Idle, n)
        BY <3>2, IdleFacts DEF Now, Good, Inward, Fresh
      <4>. QED
        BY <4>1, <4>2, <4>3, <4>4 DEF Now, Good, Inward
    <3>. QED
      BY <2>1, <3>1, <3>3 DEF After
  <2>. QED
    BY <2>2, <2>3
<1>. QED
  BY <1>1, <1>2

LEMMA CallFailsIsGood ==
    ASSUME NEW c, NEW n, NEW d, NEW late, Now(c, op, n, d), acked \subseteq arrived,
           CallFails(c, n, late)
    PROVE  After(d)
<1>1. CASE op.wait = "connack"
  BY <1>1, ConnectGoesOnIsGood DEF CallFails
<1>2. CASE op.wait # "connack"
  BY <1>2, GivesUpIsGood DEF CallFails
<1>. QED
  BY <1>1, <1>2

LEMMA CycleFailsIsGood ==
    ASSUME NEW c, NEW n, NEW d, Now(c, op, n, d), acked \subseteq arrived, CycleFails(c, n)
    PROVE  After(d)
<1>1. CASE c.isconnected
  <2>1. op.wait # "connack"
    BY <1>1 DEF Now, Good, Inward, Fresh
  <2>2. GivesUp(closeSession(c), n)
    BY <1>1, <2>1 DEF CycleFails, CallFails
  <2>. QED
    BY <2>2, ClosedGivesUp
<1>2. CASE ~c.isconnected
  BY <1>2, CallFailsIsGood DEF CycleFails
<1>. QED
  BY <1>1, <1>2

(* What the packet p that cycle has just taken says of the connection. *)
Took(n, p) ==
    /\ p.type = "connack" => No(n.toBroker, {"connect"})
    /\ p.type \in Acks /\ op.wait \in Acks =>
          /\ op.about \in arrived
          /\ No(n.toBroker, Requests \cup {"connect"}) /\ No(n.toClient, Replies)

LEMMA HandlersOnly ==
    ASSUME NEW c, NEW n, NEW d, NEW o, Now(c, o, n, d), NEW h
    PROVE  Now([c EXCEPT !.handlers = h], o, n, d)
<1> DEFINE k == [c EXCEPT !.handlers = h]
<1>1. k = [isconnected |-> c.isconnected, cleansession |-> c.cleansession,
            ping_outstanding |-> c.ping_outstanding, next |-> c.next, pubbuf |-> c.pubbuf,
            inflightMsgid |-> c.inflightMsgid, inflightQoS |-> c.inflightQoS, pubrel |-> c.pubrel,
            incoming |-> c.incoming, handlers |-> h]
  BY DEF Now, Good, Types, ClientType
<1>2. /\ ClientType(k) /\ k.isconnected = c.isconnected /\ k.cleansession = c.cleansession
      /\ k.pubbuf = c.pubbuf /\ k.inflightMsgid = c.inflightMsgid /\ k.pubrel = c.pubrel
      /\ k.incoming = c.incoming
  BY <1>1 DEF Now, Good, Types, ClientType
<1> HIDE DEF k
<1>3. Now(k, o, n, d)
  BY <1>2, SameClient DEF Now
<1>. QED
  BY <1>3 DEF k

LEMMA SetHandlerIsGood ==
    ASSUME NEW c, NEW n, NEW d, NEW o, Now(c, o, n, d), NEW f
    PROVE  Now(setMessageHandler(c, f).c, o, n, d) /\ Now(removeMessageHandler(c, f), o, n, d)
<1>1. Now(removeMessageHandler(c, f), o, n, d)
  BY HandlersOnly DEF removeMessageHandler
<1>2. setMessageHandler(c, f).c = c
      \/ \E i : setMessageHandler(c, f).c = [c EXCEPT !.handlers[i] = f]
  BY DEF setMessageHandler
<1>3. \A i : [c EXCEPT !.handlers[i] = f] = [c EXCEPT !.handlers = [@ EXCEPT ![i] = f]]
  BY DEF Now, Good, Types, ClientType
<1>4. setMessageHandler(c, f).c = c \/ \E h : setMessageHandler(c, f).c = [c EXCEPT !.handlers = h]
  BY <1>2, <1>3
<1>5. Now(setMessageHandler(c, f).c, o, n, d)
  <2>1. \A h : Now([c EXCEPT !.handlers = h], o, n, d)
    BY HandlersOnly
  <2>2. CASE setMessageHandler(c, f).c = c
    BY <2>2
  <2>3. CASE \E h : setMessageHandler(c, f).c = [c EXCEPT !.handlers = h]
    <3>1. PICK h : setMessageHandler(c, f).c = [c EXCEPT !.handlers = h]
      BY <2>3
    <3>2. Now([c EXCEPT !.handlers = h], o, n, d)
      BY <2>1
    <3>. QED
      BY ONLY <3>1, <3>2
  <2>. QED
    BY <1>4, <2>2, <2>3
<1>. QED
  BY <1>1, <1>5

(* A call that waits for no handshake ends. *)
LEMMA CallEnds ==
    ASSUME NEW c, NEW n, NEW d, Now(c, op, n, d), op.wait \notin Acks
    PROVE  Now(c, Idle, n, d)
<1>1. Types(c, Idle, n, broker, d)
  BY IdleFacts DEF Now, Good, Types
<1>2. Outward(c, Idle, n, arrived)
  BY IdleFacts DEF Now, Good, Outward, Live
<1>3. Kept(c, Idle, published, arrived)
  BY IdleFacts DEF Now, Good, Kept, Live
<1>4. Fresh(c, Idle, n)
  BY IdleFacts, NullWaits DEF Now, Good, Inward, Fresh
<1>. QED
  BY <1>1, <1>2, <1>3, <1>4 DEF Now, Good, Inward

(* The answer a publish waits for: the broker has the message. *)
LEMMA AckIsGood ==
    ASSUME NEW c, NEW n, NEW d, NEW p, Now(c, op, n, d), acked \subseteq arrived,
           op.wait \in Acks, p.type = op.wait, Took(n, p), CycleReturns(c, n, p)
    PROVE  After(d)
<1> DEFINE settled == IF c.inflightMsgid = p.id THEN [c EXCEPT !.inflightMsgid = 0] ELSE c
<1>1. /\ cl' = IF op.connecting
               THEN [settled EXCEPT !.isconnected = TRUE, !.ping_outstanding = FALSE]
               ELSE settled
      /\ acked' = acked \cup {op.about} /\ op' = Idle /\ net' = n
  BY NullWaits DEF CycleReturns, Acks
<1>2. PICK v \in {0, c.inflightMsgid} :
          settled = [isconnected |-> c.isconnected, cleansession |-> c.cleansession,
            ping_outstanding |-> c.ping_outstanding, next |-> c.next, pubbuf |-> c.pubbuf,
            inflightMsgid |-> v, inflightQoS |-> c.inflightQoS, pubrel |-> c.pubrel,
            incoming |-> c.incoming, handlers |-> c.handlers]
  BY DEF Now, Good, Types, ClientType
<1> HIDE DEF settled
<1>3. /\ ClientType(cl')
      /\ ~cl'.isconnected => ~c.isconnected
      /\ cl'.cleansession = c.cleansession /\ cl'.pubbuf = c.pubbuf
      /\ cl'.pubrel = c.pubrel /\ cl'.incoming = c.incoming /\ cl'.inflightMsgid = v
  <2>1. c.next \in Nat /\ v \in Nat /\ c.pubbuf \in Outgoing \cup {NULL} /\ c.incoming \in [Slots -> Nat]
    BY <1>2 DEF Now, Good, Types, ClientType
  <2>2. CASE op.connecting
    <3>1. cl' = [isconnected |-> TRUE, cleansession |-> c.cleansession,
            ping_outstanding |-> FALSE, next |-> c.next, pubbuf |-> c.pubbuf,
            inflightMsgid |-> v, inflightQoS |-> c.inflightQoS, pubrel |-> c.pubrel,
            incoming |-> c.incoming, handlers |-> c.handlers]
      BY <1>1, <1>2, <2>2
    <3>. QED
      BY <2>1, <3>1 DEF ClientType
  <2>3. CASE ~op.connecting
    BY <1>1, <1>2, <2>1, <2>3 DEF ClientType
  <2>. QED
    BY <2>2, <2>3
<1>4. /\ op.about \in arrived /\ op.wait # NULL
      /\ No(n.toBroker, Requests \cup {"connect"}) /\ No(n.toClient, Replies)
  BY NullWaits DEF Took
<1>5. ~option => c.pubbuf \in arrived
  BY <1>4 DEF Now, Good, Kept
<1>6. Now(cl', Idle, n, d)
  BY <1>3, <1>4, <1>5, GoodReturn
<1>. QED
  BY <1>1, <1>4, <1>6 DEF After

LEMMA CycleReturnsIsGood ==
    ASSUME NEW c, NEW n, NEW d, NEW p, Now(c, op, n, d), acked \subseteq arrived, Took(n, p),
           CycleReturns(c, n, p)
    PROVE  After(d)
<1>0. op.wait \in Waits
  BY DEF Now, Good, Types, OpType
<1>1. CASE p.type # op.wait \/ op.wait = NULL
  BY <1>1 DEF CycleReturns, After
<1>2. CASE p.type = op.wait /\ op.wait = "connack"
  <2>1. ConnectGoesOn(c, p.about = "accepted", n, FALSE)
    BY <1>2, NullWaits DEF CycleReturns
  <2>2. No(n.toBroker, {"connect"})
    BY <1>2 DEF Took
  <2>. QED
    BY <1>2, <2>1, <2>2, ConnectGoesOnIsGood
<1>3. CASE p.type = op.wait /\ op.wait \in Acks
  BY <1>3, AckIsGood
<1>4. CASE p.type = op.wait /\ op.wait = "suback"
  <2>0. op.wait \notin Acks /\ op.wait # NULL
    BY <1>4, MqttSessionAssumption DEF Acks
  <2>1. CASE GivesUp(c, n)
    BY <2>1, GivesUpIsGood
  <2>2. CASE ~GivesUp(c, n)
    <3>1. /\ cl' = c \/ cl' = setMessageHandler(c, op.about).c
          /\ op' = Idle /\ net' = n /\ acked' = acked
      BY <1>4, <2>0, <2>2 DEF CycleReturns
    <3>2. Now(cl', op, n, d)
      BY <3>1, SetHandlerIsGood
    <3>3. Now(cl', Idle, n, d)
      BY <2>0, <3>2, CallEnds
    <3>. QED
      BY <3>1, <3>3 DEF After
  <2>. QED
    BY <2>1, <2>2
<1>5. CASE p.type = op.wait /\ op.wait = "unsuback"
  <2>0. op.wait \notin Acks /\ op.wait # NULL
    BY <1>5, MqttSessionAssumption DEF Acks
  <2>1. cl' = removeMessageHandler(c, op.about) /\ op' = Idle /\ net' = n /\ acked' = acked
    BY <1>5, <2>0 DEF CycleReturns
  <2>2. Now(cl', op, n, d)
    BY <2>1, SetHandlerIsGood
  <2>3. Now(cl', Idle, n, d)
    BY <2>0, <2>2, CallEnds
  <2>. QED
    BY <2>1, <2>3 DEF After
<1>. QED
  BY <1>0, <1>1, <1>2, <1>3, <1>4, <1>5 DEF Waits, Acks

LEMMA PingIsPacket ==
    /\ Pkt("pingreq", 0, NULL) \in Packet
    /\ Pkt("pingreq", 0, NULL).type \notin Requests \cup Replies \cup {"connect"}
BY DEF Pkt, Packet, Abouts, Requests, Replies, Others

LEMMA PingOnly ==
    ASSUME NEW c, NEW n, NEW d, NEW o, Now(c, o, n, d), NEW h
    PROVE  Now([c EXCEPT !.ping_outstanding = h], o, n, d)
<1> DEFINE k == [c EXCEPT !.ping_outstanding = h]
<1>1. k = [isconnected |-> c.isconnected, cleansession |-> c.cleansession,
            ping_outstanding |-> h, next |-> c.next, pubbuf |-> c.pubbuf,
            inflightMsgid |-> c.inflightMsgid, inflightQoS |-> c.inflightQoS, pubrel |-> c.pubrel,
            incoming |-> c.incoming, handlers |-> c.handlers]
  BY DEF Now, Good, Types, ClientType
<1>2. /\ ClientType(k) /\ k.isconnected = c.isconnected /\ k.cleansession = c.cleansession
      /\ k.pubbuf = c.pubbuf /\ k.inflightMsgid = c.inflightMsgid /\ k.pubrel = c.pubrel
      /\ k.incoming = c.incoming
  BY <1>1 DEF Now, Good, Types, ClientType
<1> HIDE DEF k
<1>3. Now(k, o, n, d)
  BY <1>2, SameClient DEF Now
<1>. QED
  BY <1>3 DEF k

LEMMA KeepaliveIsGood ==
    ASSUME NEW c, NEW n, NEW d, NEW p, Now(c, op, n, d), acked \subseteq arrived, Took(n, p),
           keepalive(c, n, p)
    PROVE  After(d)
<1> DEFINE q == Pkt("pingreq", 0, NULL)
           k == [c EXCEPT !.ping_outstanding = TRUE]
<1>1. CASE CycleReturns(c, n, p)
  BY <1>1, CycleReturnsIsGood
<1>2. CASE CycleReturns(k, Sent(n, <<q>>), p)
  <2>1. Now(k, op, Sent(n, <<q>>), d)
    <3>1. Now(c, op, Sent(n, <<q>>), d)
      BY PingIsPacket, GoodSent DEF Now
    <3>. QED
      BY <3>1, PingOnly
  <2>2. Took(Sent(n, <<q>>), p)
    <3>1. CASE ~n.up
      BY <3>1 DEF Sent
    <3>2. CASE n.up
      <4>1. /\ Sent(n, <<q>>).toClient = n.toClient
            /\ Sent(n, <<q>>).toBroker = n.toBroker \o <<q>>
        BY <3>2 DEF Sent, Now, Good, Types, NetType
      <4>2. n.toBroker \in Seq(Packet)
        BY DEF Now, Good, Types, NetType
      <4>3. \A i \in DOMAIN (n.toBroker \o <<q>>) :
               \/ i \in DOMAIN n.toBroker /\ (n.toBroker \o <<q>>)[i] = n.toBroker[i]
               \/ (n.toBroker \o <<q>>)[i] = q
        BY <4>2, PingIsPacket, ConcatFacts
      <4>. QED
        BY <4>1, <4>3, PingIsPacket DEF Took, No
    <3>. QED
      BY <3>1, <3>2
  <2>. QED
    BY <1>2, <2>1, <2>2, CycleReturnsIsGood
<1>3. CASE CycleFails(c, Broken(n))
  <2>1. Now(c, op, Broken(n), d)
    BY GoodBroken DEF Now
  <2>. QED
    BY <1>3, <2>1, CycleFailsIsGood
<1>4. CASE CycleFails(c, n)
  BY <1>4, CycleFailsIsGood
<1>. QED
  BY <1>1, <1>2, <1>3, <1>4 DEF keepalive

-----------------------------------------------------------------------------
(* cycle takes a packet and acts on it. *)

Rest == [net EXCEPT !.toClient = Tail(@)]
First == Head(net.toClient)

LEMMA RestFields ==
    ASSUME IInv, net.toClient # <<>>
    PROVE  /\ Rest = [up |-> net.up, toBroker |-> net.toBroker, toClient |-> Tail(net.toClient)]
           /\ Rest.up = net.up /\ Rest.toBroker = net.toBroker /\ Rest.toClient = Tail(net.toClient)
           /\ NetType(Rest) /\ First \in Packet /\ First = net.toClient[1] /\ 1 \in DOMAIN net.toClient
<1>1. net.toClient \in Seq(Packet) /\ net.toBroker \in Seq(Packet)
  BY DEF IInv, Good, Types, NetType
<1>2. Rest = [up |-> net.up, toBroker |-> net.toBroker, toClient |-> Tail(net.toClient)]
  <2>1. net = [up |-> net.up, toBroker |-> net.toBroker, toClient |-> net.toClient]
    BY DEF IInv, Good, Types, NetType
  <2> DEFINE x == net.toClient
             y == Tail(x)
  <2>2. [net EXCEPT !.toClient = y] = [up |-> net.up, toBroker |-> net.toBroker, toClient |-> y]
    <3> HIDE DEF x, y
    <3>. QED
      BY <2>1
  <2>. QED
    BY <2>2 DEF Rest
<1>3. /\ Tail(net.toClient) \in Seq(Packet) /\ First \in Packet
      /\ First = net.toClient[1] /\ 1 \in DOMAIN net.toClient
  BY <1>1, TailFacts DEF First
<1>. QED
  BY <1>1, <1>2, <1>3 DEF NetType

(* Taking a packet away leaves the invariant as it was. *)
LEMMA RestIsGood ==
    ASSUME IInv, net.toClient # <<>>
    PROVE  Now(cl, op, Rest, delivered) /\ Took(Rest, First)
<1> DEFINE t == net.toClient
           u == Tail(t)
<1>1. /\ Rest.toBroker = net.toBroker /\ Rest.toClient = u /\ NetType(Rest)
      /\ First = t[1] /\ 1 \in DOMAIN t
  BY RestFields
<1>2. /\ \A i \in DOMAIN u : i + 1 \in DOMAIN t /\ u[i] = t[i + 1] /\ i + 1 # 1
      /\ \A i, j \in DOMAIN u : i + 1 = j + 1 => i = j
  BY TailFacts DEF IInv, Good, Types, NetType
<1> HIDE DEF u
<1>3. Types(cl, op, Rest, broker, delivered)
  BY <1>1 DEF IInv, Good, Types
<1>4. Outward(cl, op, Rest, arrived)
  BY <1>1, <1>2 DEF IInv, Good, Outward, No
<1>5. Once(Rest.toBroker, Rest.toClient)
  BY <1>1, <1>2 DEF IInv, Good, Inward, Once
<1>6. UnderWay(cl, Rest, broker, delivered)
  BY <1>1, <1>2 DEF IInv, Good, Inward, UnderWay
<1>7. \A i \in DOMAIN net.toBroker : net.toBroker[i].type # "connect"
  BY DEF IInv, Good, Inward, Fresh
<1>8. Fresh(cl, op, Rest)
  BY <1>1, <1>2, <1>7 DEF IInv, Good, Inward, Fresh, No
<1>9. Now(cl, op, Rest, delivered)
  BY <1>3, <1>4, <1>5, <1>6, <1>8 DEF IInv, Now, Good, Inward
<1>10. Took(Rest, First)
  <2>1. No(Rest.toBroker, {"connect"})
    BY <1>1, <1>7 DEF No
  <2>2. ASSUME First.type \in Acks, op.wait \in Acks
        PROVE  op.about \in arrived /\ No(Rest.toBroker, Requests) /\ No(Rest.toClient, Replies)
    <3>1. First.type \in Replies
      BY <2>2 DEF Acks, Replies
    <3>2. op.about \in arrived /\ No(net.toBroker, Requests)
      BY <1>1, <2>2, <3>1 DEF IInv, Good, Outward, No
    <3>3. No(u, Replies)
      BY <1>1, <1>2, <2>2, <3>1 DEF IInv, Good, Outward, No
    <3>. QED
      BY <1>1, <3>2, <3>3
  <2>. QED
    BY <2>1, <2>2 DEF Took, No
<1>. QED
  BY <1>9, <1>10

(* PUBREC is answered by PUBREL. *)
LEMMA PubrecIsGood ==
    ASSUME IInv, net.toClient # <<>>, Live(cl, op), First.type = "pubrec",
           NEW q \in Packet, q.type = "pubrel"
    PROVE  Now(cl, op, Sent(Rest, <<q>>), delivered) /\ Took(Sent(Rest, <<q>>), First)
<1> DEFINE s == net.toBroker
           t == net.toClient
           u == Tail(t)
           w == s \o <<q>>
           k == Sent(Rest, <<q>>)
<1>1. /\ Rest.toBroker = s /\ Rest.toClient = u /\ NetType(Rest)
      /\ First = t[1] /\ 1 \in DOMAIN t
  BY RestFields
<1>2. Took(k, First)
  BY DEF Took, Acks
<1>3. Now(cl, op, Rest, delivered)
  BY RestIsGood
<1>4. CASE ~net.up
  BY <1>2, <1>3, <1>4, RestFields DEF Sent
<1>5. CASE net.up
  <2>1. k = [up |-> Rest.up, toBroker |-> w, toClient |-> u]
    BY <1>1, <1>5, RestFields DEF Sent
  <2>2. k.toBroker = w /\ k.toClient = u
    <3> HIDE DEF k, w, u
    <3>. QED
      BY <2>1
  <2>3. s \in Seq(Packet)
    BY DEF IInv, Good, Types, NetType
  <2>4. /\ w \in Seq(Packet)
        /\ \A i \in DOMAIN s : i \in DOMAIN w /\ w[i] = s[i]
        /\ \A i \in DOMAIN w : i \in DOMAIN s \/ (i = Len(s) + 1 /\ w[i] = q)
    BY <2>3, ConcatFacts
  <2>5. /\ \A i \in DOMAIN u : i + 1 \in DOMAIN t /\ u[i] = t[i + 1] /\ i + 1 # 1
    BY TailFacts DEF IInv, Good, Types, NetType
  <2> HIDE DEF k, w, u
  <2>6. First.type \in Replies
    BY DEF Replies
  <2>7. op.wait \in Acks
    BY <1>1, <2>6 DEF IInv, Good, Outward, No
  <2>8. op.about \in arrived /\ No(s, Requests) /\ No(u, Replies)
    BY <1>1, <2>5, <2>6, <2>7 DEF IInv, Good, Outward, No
  <2>9. Types(cl, op, k, broker, delivered)
    BY <1>1, <2>1, <2>2, <2>4, RestFields DEF IInv, Good, Types, NetType
  <2>10. Outward(cl, op, k, arrived)
    BY <2>2, <2>4, <2>7, <2>8 DEF Outward, No, Requests
  <2>11. Once(w, u)
    BY <1>1, <1>3, <2>4 DEF Now, Good, Inward, Once, Replies
  <2>12. UnderWay(cl, k, broker, delivered)
    BY <1>1, <1>3, <2>2, <2>4 DEF Now, Good, Inward, UnderWay, Replies
  <2>13. Fresh(cl, op, k)
    BY <1>1, <1>3, <2>2, <2>4 DEF Now, Good, Inward, Fresh, No, Replies
  <2>14. Now(cl, op, k, delivered)
    BY <1>3, <2>2, <2>9, <2>10, <2>11, <2>12, <2>13 DEF Now, Good, Inward
  <2>. QED
    BY <1>2, <2>14 DEF k
<1>. QED
  BY <1>4, <1>5

(* A PUBLISH or PUBREL is answered, with whatever it does to the table and *)
(* to the deliveries.                                                      *)
LEMMA ReplyIsGood ==
    ASSUME IInv, net.toClient # <<>>, First.type \in Requests,
           NEW q \in Packet, q.type \in Replies, q.id = First.id,
           NEW c, ClientType(c), c.isconnected = cl.isconnected, c.cleansession = cl.cleansession,
           c.pubbuf = cl.pubbuf, c.inflightMsgid = cl.inflightMsgid, c.pubrel = cl.pubrel,
           NEW d \in [Incoming -> Nat],
           Table(c, broker, d), Deliveries(broker, d), ReplyFor(q, c, broker, d),
           \A r : r.id # q.id /\ ReplyFor(r, cl, broker, delivered) => ReplyFor(r, c, broker, d),
           \A r : r.id # q.id /\ PublishOf(r, broker, delivered) => PublishOf(r, broker, d),
           option /\ ~c.isconnected => \A i \in Slots : c.incoming[i] = 0
    PROVE  Now(c, op, Sent(Rest, <<q>>), d) /\ Took(Sent(Rest, <<q>>), First)
<1> DEFINE s == net.toBroker
           t == net.toClient
           u == Tail(t)
           w == s \o <<q>>
           k == Sent(Rest, <<q>>)
<1>1. /\ Rest.toBroker = s /\ Rest.toClient = u /\ NetType(Rest)
      /\ First = t[1] /\ 1 \in DOMAIN t
  BY RestFields
<1>2. Took(k, First)
  BY DEF Took, Acks, Requests
<1>3. Now(cl, op, Rest, delivered)
  BY RestIsGood
<1>4. k.toClient = u /\ k.toBroker \in {s, w} /\ NetType(k)
  <2>1. s \in Seq(Packet)
    BY DEF IInv, Good, Types, NetType
  <2>2. w \in Seq(Packet)
    BY <2>1, ConcatFacts
  <2>3. CASE ~net.up
    BY <1>1, <2>3, RestFields DEF Sent
  <2>4. CASE net.up
    <3>1. k = [up |-> Rest.up, toBroker |-> w, toClient |-> u]
      BY <1>1, <2>4, RestFields DEF Sent
    <3>2. u \in Seq(Packet)
      BY <1>1 DEF NetType
    <3> HIDE DEF k, w, u
    <3>. QED
      BY <2>2, <3>1, <3>2 DEF NetType
  <2>. QED
    BY <2>3, <2>4
<1>5. /\ \A i \in DOMAIN s : i \in DOMAIN w /\ w[i] = s[i]
      /\ \A i \in DOMAIN w : i \in DOMAIN s \/ (i = Len(s) + 1 /\ w[i] = q)
  <2>1. s \in Seq(Packet)
    BY DEF IInv, Good, Types, NetType
  <2>. QED
    BY <2>1, ConcatFacts
<1>6. /\ \A i \in DOMAIN u : i + 1 \in DOMAIN t /\ u[i] = t[i + 1] /\ i + 1 # 1
      /\ \A i, j \in DOMAIN u : i + 1 = j + 1 => i = j
  BY TailFacts DEF IInv, Good, Types, NetType
<1> HIDE DEF k, w, u
<1>7. q.type \notin Requests \cup {"connect"}
  BY DEF Requests, Replies
<1>8. Types(c, op, k, broker, d)
  BY <1>4 DEF IInv, Good, Types
<1>9. Outward(c, op, k, arrived)
  <2>1. Outward(cl, op, Rest, arrived)
    BY <1>3 DEF Now, Good
  <2>. QED
    BY <1>1, <1>4, <1>5, <1>7, <2>1 DEF Outward, No, Live, Requests
<1>10. Kept(c, op, published, arrived)
  BY DEF IInv, Good, Kept, Live
<1>11. /\ \A i \in DOMAIN s : s[i].type \in Replies => s[i].id # q.id
       /\ \A i \in DOMAIN u : u[i].type \in Requests => u[i].id # q.id
  BY <1>1, <1>6 DEF IInv, Good, Inward, Once
<1>12. Once(k.toBroker, k.toClient)
  <2>1. Once(s, u)
    BY <1>1, <1>3 DEF Now, Good, Inward
  <2>2. Once(w, u)
    BY <1>5, <1>11, <2>1 DEF Once
  <2>. QED
    BY <1>4, <2>1, <2>2
<1>13. UnderWay(c, k, broker, d)
  <2>1. UnderWay(cl, Rest, broker, delivered)
    BY <1>3 DEF Now, Good, Inward
  <2>2. \A i \in DOMAIN s : s[i].type \in Replies => ReplyFor(s[i], c, broker, d)
    BY <1>1, <1>11, <2>1 DEF UnderWay
  <2>3. \A i \in DOMAIN u : /\ u[i].type = "publish" => PublishOf(u[i], broker, d)
                            /\ u[i].type = "pubrel" => ReleaseOf(u[i], broker)
    BY <1>1, <1>11, <2>1 DEF UnderWay, Requests
  <2>. QED
    BY <1>4, <1>5, <2>2, <2>3 DEF UnderWay
<1>14. Fresh(c, op, k)
  <2>1. No(s, {"connect"})
    BY <1>1 DEF IInv, Good, Inward, Fresh, No
  <2>2. No(k.toBroker, {"connect"})
    BY <1>4, <1>5, <1>7, <2>1 DEF No
  <2>3. Fresh(cl, op, Rest)
    BY <1>3 DEF Now, Good, Inward
  <2>. QED
    BY <1>1, <1>4, <2>2, <2>3 DEF Fresh, No
<1>15. Numbered(broker)
  BY DEF IInv, Good, Inward
<1>16. Now(c, op, k, d)
  BY <1>8, <1>9, <1>10, <1>12, <1>13, <1>14, <1>15 DEF Now, Good, Inward
<1>. QED
  BY <1>2, <1>16 DEF k

-----------------------------------------------------------------------------
(* The table of received identifiers. *)

(* Writing a slot of the table. *)
LEMMA SlotFields ==
    ASSUME NEW c, ClientType(c), NEW f \in Slots, NEW v \in Nat,
           NEW k, k = [c EXCEPT !.incoming[f] = v]
    PROVE  /\ ClientType(k) /\ k.isconnected = c.isconnected /\ k.cleansession = c.cleansession
           /\ k.pubbuf = c.pubbuf /\ k.inflightMsgid = c.inflightMsgid /\ k.pubrel = c.pubrel
           /\ \A i \in Slots : k.incoming[i] = IF i = f THEN v ELSE c.incoming[i]
<1> DEFINE t == [c.incoming EXCEPT ![f] = v]
<1>1. t \in [Slots -> Nat] /\ \A i \in Slots : t[i] = IF i = f THEN v ELSE c.incoming[i]
  BY DEF ClientType
<1>2. k = [c EXCEPT !.incoming = t]
  OBVIOUS
<1> HIDE DEF t
<1>3. k = [isconnected |-> c.isconnected, cleansession |-> c.cleansession,
            ping_outstanding |-> c.ping_outstanding, next |-> c.next, pubbuf |-> c.pubbuf,
            inflightMsgid |-> c.inflightMsgid, inflightQoS |-> c.inflightQoS, pubrel |-> c.pubrel,
            incoming |-> t, handlers |-> c.handlers]
  BY <1>2 DEF ClientType
<1>4. c.next \in Nat /\ c.inflightMsgid \in Nat /\ c.pubbuf \in Outgoing \cup {NULL}
  BY DEF ClientType
<1>5. k.incoming = t
  BY ONLY <1>3
<1>. QED
  BY ONLY <1>1, <1>3, <1>4, <1>5 DEF ClientType

(* An identifier that is forgotten is in the table no more. *)
LEMMA FreeFields ==
    ASSUME NEW c, ClientType(c), NEW id \in Nat,
           \A i, j \in Slots : c.incoming[i] = c.incoming[j] /\ c.incoming[i] # 0 => i = j, id # 0,
           NEW k, k = freeQoS2msgid(c, id)
    PROVE  /\ ClientType(k) /\ k.isconnected = c.isconnected /\ k.cleansession = c.cleansession
           /\ k.pubbuf = c.pubbuf /\ k.inflightMsgid = c.inflightMsgid /\ k.pubrel = c.pubrel
           /\ \A i \in Slots : k.incoming[i] = IF c.incoming[i] = id THEN 0 ELSE c.incoming[i]
<1> DEFINE used == {i \in Slots : c.incoming[i] = id}
<1>1. CASE used = {}
  <2>1. k = c
    BY <1>1 DEF freeQoS2msgid
  <2>. QED
    BY <1>1, <2>1
<1>2. CASE used # {}
  <2>1. used \in SUBSET Nat
    BY MqttSessionAssumption DEF Slots
  <2>2. Min(used) \in used
    BY <1>2, <2>1, MinIsElement
  <2>3. k = [c EXCEPT !.incoming[Min(used)] = 0]
    BY <1>2 DEF freeQoS2msgid
  <2>4. PICK f \in Slots : f = Min(used) /\ c.incoming[f] = id
    BY <2>2
  <2>5. /\ ClientType(k) /\ k.isconnected = c.isconnected /\ k.cleansession = c.cleansession
        /\ k.pubbuf = c.pubbuf /\ k.inflightMsgid = c.inflightMsgid /\ k.pubrel = c.pubrel
        /\ \A i \in Slots : k.incoming[i] = IF i = f THEN 0 ELSE c.incoming[i]
    BY <2>3, <2>4, SlotFields
  <2>6. \A i \in Slots : c.incoming[i] = id <=> i = f
    BY <2>4
  <2>. QED
    BY <2>5, <2>6
<1>. QED
  BY <1>1, <1>2

(* The table has a slot for a message under way that is not in it. *)
LEMMA FreeSlot ==
    ASSUME NEW c, NEW b, NEW d, Numbered(b), Table(c, b, d), ClientType(c),
           NEW m \in Flying(b), isQoS2msgidFree(c, b.id[m])
    PROVE  \E i \in Slots : c.incoming[i] = 0
<1>1. SUFFICES ASSUME \A i \in Slots : c.incoming[i] # 0
               PROVE  FALSE
  OBVIOUS
<1> DEFINE F == Flying(b)
           T == F \ {m}
           f == [i \in Slots |-> CHOOSE x \in F : b.id[x] = c.incoming[i]]
<1>2. \A i \in Slots : \E x \in F : b.id[x] = c.incoming[i]
  BY <1>1 DEF Table
<1>3. \A i \in Slots : f[i] \in F /\ b.id[f[i]] = c.incoming[i]
  BY <1>2
<1>4. \A i \in Slots : f[i] # m
  BY <1>3 DEF isQoS2msgidFree
<1>5. f \in [Slots -> T]
  BY <1>3, <1>4
<1>6. IsFiniteSet(F) /\ Cardinality(F) <= MAX_INCOMING_QOS2_MESSAGES
  BY DEF Numbered
<1>7. IsFiniteSet(T) /\ Cardinality(T) = Cardinality(F) - 1 /\ Cardinality(F) \in Nat
  BY <1>6, FS_RemoveElement, FS_CardinalityType
<1>8. IsFiniteSet(Slots) /\ Cardinality(Slots) = MAX_INCOMING_QOS2_MESSAGES
  BY MqttSessionAssumption, FS_Interval DEF Slots
<1>9. Cardinality(T) < Cardinality(Slots)
  <2>1. MAX_INCOMING_QOS2_MESSAGES \in Nat
    BY MqttSessionAssumption
  <2> HIDE DEF T, F
  <2>. QED
    BY <1>6, <1>7, <1>8, <2>1
<1> HIDE DEF f, T
<1>10. \E x, y \in Slots : x # y /\ f[x] = f[y]
  BY <1>5, <1>7, <1>8, <1>9, FS_PigeonHole
<1>11. \A x, y \in Slots : f[x] = f[y] => c.incoming[x] = c.incoming[y]
  BY <1>3
<1>. QED
  BY <1>1, <1>10, <1>11 DEF Table

LEMMA UseFields ==
    ASSUME NEW c, ClientType(c), NEW id \in Nat, id # 0, \E i \in Slots : c.incoming[i] = 0,
           NEW k, k = useQoS2msgid(c, id)
    PROVE  \E f \in Slots :
           /\ c.incoming[f] = 0
           /\ ClientType(k) /\ k.isconnected = c.isconnected /\ k.cleansession = c.cleansession
           /\ k.pubbuf = c.pubbuf /\ k.inflightMsgid = c.inflightMsgid /\ k.pubrel = c.pubrel
           /\ \A i \in Slots : k.incoming[i] = IF i = f THEN id ELSE c.incoming[i]
           /\ k # c
<1> DEFINE free == {i \in Slots : c.incoming[i] = 0}
<1>1. free # {} /\ free \in SUBSET Nat
  BY MqttSessionAssumption DEF Slots
<1>2. Min(free) \in free
  BY <1>1, MinIsElement
<1>3. k = [c EXCEPT !.incoming[Min(free)] = id]
  BY <1>1 DEF useQoS2msgid
<1>4. PICK f \in Slots : f = Min(free) /\ c.incoming[f] = 0
  BY <1>2
<1>5. /\ ClientType(k) /\ k.isconnected = c.isconnected /\ k.cleansession = c.cleansession
      /\ k.pubbuf = c.pubbuf /\ k.inflightMsgid = c.inflightMsgid /\ k.pubrel = c.pubrel
      /\ \A i \in Slots : k.incoming[i] = IF i = f THEN id ELSE c.incoming[i]
  BY <1>3, <1>4, SlotFields
<1>6. k.incoming[f] # c.incoming[f]
  BY <1>4, <1>5
<1>7. k # c
  BY <1>6
<1>. QED
  BY <1>4, <1>5, <1>7

(* PUBREL: the identifier is forgotten, and PUBCOMP sent. *)
LEMMA PubrelIsGood ==
    ASSUME IInv, net.toClient # <<>>, First.type = "pubrel",
           NEW q, q = Pkt("pubcomp", First.id, NULL),
           NEW c, c = freeQoS2msgid(cl, First.id)
    PROVE  Now(c, op, Sent(Rest, <<q>>), delivered) /\ Took(Sent(Rest, <<q>>), First)
<1>1. First \in Packet /\ First = net.toClient[1] /\ 1 \in DOMAIN net.toClient
  BY RestFields
<1>2. First.id \in Nat
  BY <1>1 DEF Packet
<1>3. q \in Packet /\ q.type = "pubcomp" /\ q.type \in Replies /\ q.id = First.id
  BY <1>2 DEF Pkt, Packet, Replies, Abouts
<1>4. PICK m \in Flying(broker) : broker.id[m] = First.id /\ broker.out[m] = "rec"
  BY <1>1 DEF IInv, Good, Inward, UnderWay, ReleaseOf
<1>5. First.id # 0 /\ delivered[m] >= 1
  BY <1>4 DEF IInv, Good, Inward, Numbered, Deliveries, Flying
<1>6. ClientType(cl) /\ Table(cl, broker, delivered) /\ Deliveries(broker, delivered)
  BY DEF IInv, Good, Types, Inward
<1>7. /\ ClientType(c) /\ c.isconnected = cl.isconnected /\ c.cleansession = cl.cleansession
      /\ c.pubbuf = cl.pubbuf /\ c.inflightMsgid = cl.inflightMsgid /\ c.pubrel = cl.pubrel
      /\ \A i \in Slots : c.incoming[i] = IF cl.incoming[i] = First.id THEN 0 ELSE cl.incoming[i]
  <2>1. \A i, j \in Slots : cl.incoming[i] = cl.incoming[j] /\ cl.incoming[i] # 0 => i = j
    BY <1>6 DEF Table
  <2>. QED
    BY <1>2, <1>5, <1>6, <2>1, FreeFields
<1>8. \A k \in Flying(broker) : broker.id[k] # 0 /\ (broker.id[k] = First.id => k = m)
  BY <1>4 DEF IInv, Good, Inward, Numbered
<1>9. Table(c, broker, delivered)
  <2>1. ASSUME ~option, NEW k \in Flying(broker), Qos[k] = 2, broker.out[k] = "sent", delivered[k] >= 1
        PROVE  \E i \in Slots : c.incoming[i] = broker.id[k]
    <3>1. \E i \in Slots : cl.incoming[i] = broker.id[k]
      BY <1>6, <2>1 DEF Table
    <3>2. broker.id[k] # First.id
      BY <1>4, <1>8, <2>1
    <3>. QED
      BY <1>7, <3>1, <3>2
  <2>2. \A i, j \in Slots : c.incoming[i] = c.incoming[j] /\ c.incoming[i] # 0 => i = j
    BY <1>6, <1>7 DEF Table
  <2>3. \A i \in Slots : c.incoming[i] # 0 =>
          \E k \in Flying(broker) : Qos[k] = 2 /\ broker.id[k] = c.incoming[i] /\ delivered[k] >= 1
    BY <1>6, <1>7 DEF Table
  <2>4. ~option /\ c.cleansession => \A k \in Incoming : broker.out[k] = "unsent"
    BY <1>6, <1>7 DEF Table
  <2>. QED
    BY <2>1, <2>2, <2>3, <2>4 DEF Table
<1>10. ReplyFor(q, c, broker, delivered)
  <2>1. \A i \in Slots : c.incoming[i] # q.id
    BY <1>3, <1>5, <1>7
  <2>. QED
    BY <1>3, <1>4, <1>5, <2>1 DEF ReplyFor
<1>11. \A r : ReplyFor(r, cl, broker, delivered) => ReplyFor(r, c, broker, delivered)
  BY <1>7, <1>8 DEF ReplyFor
<1>12. option /\ ~c.isconnected => \A i \in Slots : c.incoming[i] = 0
  BY <1>7 DEF IInv, Good, Inward, Fresh
<1>13. delivered \in [Incoming -> Nat] /\ First.type \in Requests
  BY DEF IInv, Good, Types, Requests
<1>. QED
  BY <1>3, <1>6, <1>7, <1>9, <1>10, <1>11, <1>12, <1>13, ReplyIsGood

(* What a PUBLISH at the client is about. *)
LEMMA PublishFields ==
    ASSUME IInv, net.toClient # <<>>, First.type = "publish"
    PROVE  /\ First.about \in Flying(broker) /\ First.about \in Incoming
           /\ First.id = broker.id[First.about] /\ First.id \in Nat /\ First.id # 0
           /\ broker.out[First.about] = "sent" /\ Qos[First.about] \in {1, 2}
           /\ option /\ Qos[First.about] = 2 => delivered[First.about] = 0
           /\ \A k \in Flying(broker) : broker.id[k] # 0 /\ (broker.id[k] = First.id => k = First.about)
<1>1. First \in Packet /\ First = net.toClient[1] /\ 1 \in DOMAIN net.toClient
  BY RestFields
<1>2. First.id \in Nat
  BY <1>1 DEF Packet
<1>3. PublishOf(First, broker, delivered)
  BY <1>1 DEF IInv, Good, Inward, UnderWay
<1>4. First.about \in Flying(broker)
  BY <1>3 DEF PublishOf, Flying
<1>5. \A k \in Flying(broker) : broker.id[k] # 0 /\ (broker.id[k] = First.id => k = First.about)
  BY <1>3, <1>4 DEF PublishOf, IInv, Good, Inward, Numbered
<1>6. Qos[First.about] \in {1, 2}
  BY <1>3, MqttSessionAssumption DEF PublishOf
<1>. QED
  BY <1>2, <1>3, <1>4, <1>5, <1>6 DEF PublishOf

(* One more delivery of a message with this identifier: the packets under  *)
(* way with other identifiers are about other messages.                    *)
LEMMA OneMore ==
    ASSUME IInv, NEW m \in Flying(broker),
           NEW d, d = [delivered EXCEPT ![m] = @ + 1]
    PROVE  /\ d \in [Incoming -> Nat] /\ d[m] = delivered[m] + 1 /\ d[m] >= 1
           /\ \A k \in Incoming : k # m => d[k] = delivered[k]
           /\ \A k \in Incoming : delivered[k] >= 1 => d[k] >= 1
           /\ \A r : r.id # broker.id[m] /\ PublishOf(r, broker, delivered) => PublishOf(r, broker, d)
<1>1. delivered \in [Incoming -> Nat] /\ m \in Incoming
  BY DEF IInv, Good, Types, Flying
<1>2. /\ d \in [Incoming -> Nat] /\ d[m] = delivered[m] + 1 /\ d[m] >= 1
      /\ \A k \in Incoming : k # m => d[k] = delivered[k]
  BY <1>1
<1>3. \A k \in Incoming : delivered[k] >= 1 => d[k] >= 1
  BY <1>2
<1>4. \A r : r.id # broker.id[m] /\ PublishOf(r, broker, delivered) => PublishOf(r, broker, d)
  BY <1>2 DEF PublishOf
<1>. QED
  BY <1>2, <1>3, <1>4

(* PUBLISH with QoS 1: delivered, and PUBACK sent. *)
LEMMA Publish1IsGood ==
    ASSUME IInv, net.toClient # <<>>, First.type = "publish", Qos[First.about] = 1,
           NEW q, q = Pkt("puback", First.id, NULL),
           NEW d, d = [delivered EXCEPT ![First.about] = @ + 1]
    PROVE  Now(cl, op, Sent(Rest, <<q>>), d) /\ Took(Sent(Rest, <<q>>), First)
<1> DEFINE m == First.about
<1>1. /\ m \in Flying(broker) /\ m \in Incoming /\ First.id = broker.id[m] /\ First.id \in Nat
      /\ broker.out[m] = "sent"
  BY PublishFields
<1>2. q \in Packet /\ q.type = "puback" /\ q.type \in Replies /\ q.id = First.id
  BY <1>1 DEF Pkt, Packet, Replies, Abouts
<1>3. /\ d \in [Incoming -> Nat] /\ d[m] >= 1
      /\ \A k \in Incoming : k # m => d[k] = delivered[k]
      /\ \A k \in Incoming : delivered[k] >= 1 => d[k] >= 1
      /\ \A r : r.id # broker.id[m] /\ PublishOf(r, broker, delivered) => PublishOf(r, broker, d)
  BY <1>1, OneMore
<1>4. ClientType(cl) /\ Table(cl, broker, delivered) /\ Deliveries(broker, delivered)
  BY DEF IInv, Good, Types, Inward
<1>5. \A k \in Flying(broker) : k \in Incoming
  BY DEF Flying
<1> HIDE DEF m
<1>6. Table(cl, broker, d)
  <2>1. \A k \in Flying(broker) : Qos[k] = 2 => d[k] = delivered[k]
    BY <1>3, <1>5 DEF m
  <2>. QED
    BY <1>3, <1>4, <1>5, <2>1 DEF Table
<1>7. Deliveries(broker, d)
  <2>1. \A k \in Incoming : Qos[k] = 2 \/ broker.out[k] = "unsent" => d[k] = delivered[k]
    BY <1>1, <1>3 DEF m
  <2>. QED
    BY <1>3, <1>4, <2>1 DEF Deliveries
<1>8. ReplyFor(q, cl, broker, d)
  BY <1>1, <1>2, <1>3 DEF ReplyFor, m
<1>9. \A r : ReplyFor(r, cl, broker, delivered) => ReplyFor(r, cl, broker, d)
  BY <1>3, <1>5 DEF ReplyFor
<1>10. option /\ ~cl.isconnected => \A i \in Slots : cl.incoming[i] = 0
  BY DEF IInv, Good, Inward, Fresh
<1>11. First.type \in Requests
  BY DEF Requests
<1>12. \A r : r.id # q.id /\ PublishOf(r, broker, delivered) => PublishOf(r, broker, d)
  BY <1>1, <1>2, <1>3
<1>. QED
  BY <1>2, <1>3, <1>4, <1>6, <1>7, <1>8, <1>9, <1>10, <1>11, <1>12, ReplyIsGood

(* PUBLISH with QoS 2 that is in the table: not delivered again. *)
LEMMA RepeatedIsGood ==
    ASSUME IInv, net.toClient # <<>>, First.type = "publish", Qos[First.about] = 2,
           ~isQoS2msgidFree(cl, First.id),
           NEW q, q = Pkt("pubrec", First.id, NULL)
    PROVE  Now(cl, op, Sent(Rest, <<q>>), delivered) /\ Took(Sent(Rest, <<q>>), First)
<1> DEFINE m == First.about
<1>1. /\ m \in Flying(broker) /\ First.id = broker.id[m] /\ First.id \in Nat /\ First.id # 0
      /\ \A k \in Flying(broker) : broker.id[k] = First.id => k = m
  BY PublishFields
<1>2. q \in Packet /\ q.type = "pubrec" /\ q.type \in Replies /\ q.id = First.id
  BY <1>1 DEF Pkt, Packet, Replies, Abouts
<1>3. ClientType(cl) /\ Table(cl, broker, delivered) /\ Deliveries(broker, delivered)
  BY DEF IInv, Good, Types, Inward
<1>4. delivered[m] >= 1
  BY <1>1, <1>3 DEF isQoS2msgidFree, Table
<1>5. ReplyFor(q, cl, broker, delivered)
  BY <1>1, <1>2, <1>4 DEF ReplyFor
<1>6. option /\ ~cl.isconnected => \A i \in Slots : cl.incoming[i] = 0
  BY DEF IInv, Good, Inward, Fresh
<1>7. First.type \in Requests /\ delivered \in [Incoming -> Nat]
  BY DEF Requests, IInv, Good, Types
<1>. QED
  BY <1>2, <1>3, <1>5, <1>6, <1>7, ReplyIsGood

(* PUBLISH with QoS 2 that is not in the table: it was never delivered,    *)
(* there is a slot for it, and it is delivered now.                        *)
LEMMA NewIsGood ==
    ASSUME IInv, Turning, net.toClient # <<>>, First.type = "publish", Qos[First.about] = 2,
           isQoS2msgidFree(cl, First.id),
           NEW q, q = Pkt("pubrec", First.id, NULL),
           NEW c, c = useQoS2msgid(cl, First.id),
           NEW d, d = [delivered EXCEPT ![First.about] = @ + 1]
    PROVE  /\ Now(c, op, Sent(Rest, <<q>>), d) /\ Took(Sent(Rest, <<q>>), First)
           /\ c # cl
<1> DEFINE m == First.about
<1>1. /\ m \in Flying(broker) /\ m \in Incoming
      /\ First.id = broker.id[m] /\ First.id \in Nat /\ First.id # 0
      /\ broker.out[m] = "sent"
      /\ option => delivered[m] = 0
      /\ \A k \in Flying(broker) : broker.id[k] # 0 /\ (broker.id[k] = First.id => k = m)
  BY PublishFields
<1>2. q \in Packet /\ q.type = "pubrec" /\ q.type \in Replies /\ q.id = First.id
  BY <1>1 DEF Pkt, Packet, Replies, Abouts
<1>3. /\ d \in [Incoming -> Nat] /\ d[m] = delivered[m] + 1 /\ d[m] >= 1
      /\ \A k \in Incoming : k # m => d[k] = delivered[k]
      /\ \A k \in Incoming : delivered[k] >= 1 => d[k] >= 1
      /\ \A r : r.id # broker.id[m] /\ PublishOf(r, broker, delivered) => PublishOf(r, broker, d)
  BY <1>1, OneMore
<1>4. /\ ClientType(cl) /\ Table(cl, broker, delivered) /\ Deliveries(broker, delivered)
      /\ Numbered(broker) /\ delivered \in [Incoming -> Nat]
  BY DEF IInv, Good, Types, Inward
<1>5. \A k \in Flying(broker) : k \in Incoming
  BY DEF Flying
<1>6. delivered[m] = 0
  <2>1. CASE option
    BY <1>1, <2>1
  <2>2. CASE ~option
    <3>1. ~(delivered[m] >= 1)
      BY <1>1, <1>4, <2>2 DEF Table, isQoS2msgidFree
    <3>2. delivered[m] \in Nat
      BY <1>1, <1>4
    <3>. QED
      BY <3>1, <3>2
  <2>. QED
    BY <2>1, <2>2
<1>7. \E i \in Slots : cl.incoming[i] = 0
  BY <1>1, <1>4, FreeSlot
<1>8. PICK f \in Slots :
      /\ cl.incoming[f] = 0
      /\ ClientType(c) /\ c.isconnected = cl.isconnected /\ c.cleansession = cl.cleansession
      /\ c.pubbuf = cl.pubbuf /\ c.inflightMsgid = cl.inflightMsgid /\ c.pubrel = cl.pubrel
      /\ \A i \in Slots : c.incoming[i] = IF i = f THEN First.id ELSE cl.incoming[i]
      /\ c # cl
  BY <1>1, <1>4, <1>7, UseFields
<1>9. \A i \in Slots : cl.incoming[i] # First.id
  BY DEF isQoS2msgidFree
<1>10. Qos[m] = 2
  OBVIOUS
<1> HIDE DEF m
<1>11. Table(c, broker, d)
  <2>1. \A i, j \in Slots : c.incoming[i] = c.incoming[j] /\ c.incoming[i] # 0 => i = j
    BY <1>4, <1>8, <1>9 DEF Table
  <2>2. ASSUME NEW i \in Slots, c.incoming[i] # 0
        PROVE  \E k \in Flying(broker) : Qos[k] = 2 /\ broker.id[k] = c.incoming[i] /\ d[k] >= 1
    <3>1. CASE i = f
      BY <1>1, <1>3, <1>8, <1>10, <3>1
    <3>2. CASE i # f
      <4>1. c.incoming[i] = cl.incoming[i]
        BY <1>8, <3>2
      <4>2. PICK k \in Flying(broker) : Qos[k] = 2 /\ broker.id[k] = cl.incoming[i] /\ delivered[k] >= 1
        BY <1>4, <2>2, <4>1 DEF Table
      <4>. QED
        BY <1>3, <1>5, <4>1, <4>2
    <3>. QED
      BY <3>1, <3>2
  <2>3. ASSUME ~option, NEW k \in Flying(broker), Qos[k] = 2, broker.out[k] = "sent", d[k] >= 1
        PROVE  \E i \in Slots : c.incoming[i] = broker.id[k]
    <3>1. CASE k = m
      BY <1>1, <1>8, <3>1
    <3>2. CASE k # m
      <4>1. delivered[k] >= 1
        BY <1>3, <1>5, <2>3, <3>2
      <4>2. PICK i \in Slots : cl.incoming[i] = broker.id[k]
        BY <1>4, <2>3, <4>1 DEF Table
      <4>3. i # f
        BY <1>1, <1>8, <4>2
      <4>. QED
        BY <1>8, <4>2, <4>3
    <3>. QED
      BY <3>1, <3>2
  <2>4. ~(~option /\ c.cleansession)
    BY <1>1, <1>4, <1>8 DEF Table
  <2>. QED
    BY <2>1, <2>2, <2>3, <2>4 DEF Table
<1>12. Deliveries(broker, d)
  <2>1. \A k \in Incoming : broker.out[k] = "unsent" => d[k] = delivered[k]
    BY <1>1, <1>3
  <2>2. d[m] <= 1
    BY <1>3, <1>6
  <2>. QED
    BY <1>3, <1>4, <2>1, <2>2 DEF Deliveries
<1>13. ReplyFor(q, c, broker, d)
  BY <1>1, <1>2, <1>3 DEF ReplyFor
<1>14. ASSUME NEW r, r.id # q.id, ReplyFor(r, cl, broker, delivered)
       PROVE  ReplyFor(r, c, broker, d)
  <2>1. \A i \in Slots : cl.incoming[i] # r.id => c.incoming[i] # r.id
    BY <1>2, <1>8, <1>14
  <2>. QED
    BY <1>3, <1>5, <1>14, <2>1 DEF ReplyFor
<1>15. ~(option /\ ~c.isconnected)
  <2>1. SUFFICES ASSUME option, ~cl.isconnected
                 PROVE  FALSE
    BY <1>8
  <2>2. op.wait # NULL
    BY <2>1 DEF Turning
  <2>3. No(net.toClient, {"publish"})
    BY <2>1, <2>2 DEF IInv, Good, Inward, Fresh
  <2>4. First = net.toClient[1] /\ 1 \in DOMAIN net.toClient
    BY RestFields
  <2>. QED
    BY <2>3, <2>4 DEF No
<1>16. First.type \in Requests
  BY DEF Requests
<1>17. \A r : r.id # q.id /\ PublishOf(r, broker, delivered) => PublishOf(r, broker, d)
  BY <1>1, <1>2, <1>3
<1>18. Now(c, op, Sent(Rest, <<q>>), d) /\ Took(Sent(Rest, <<q>>), First)
  BY <1>2, <1>3, <1>8, <1>11, <1>12, <1>13, <1>14, <1>15, <1>16, <1>17, ReplyIsGood
<1>. QED
  BY <1>8, <1>18

LEMMA TurningIsLive ==
    ASSUME Turning
    PROVE  Live(cl, op)
BY DEF Turning, Live

LEMMA NothingSent ==
    ASSUME IInv, net.toClient # <<>>
    PROVE  Sent(Rest, <<>>) = Rest
<1> DEFINE x == Rest.toBroker
           u == Rest.toClient
<1>1. Rest = [up |-> Rest.up, toBroker |-> x, toClient |-> u] /\ x \in Seq(Packet)
  BY RestFields DEF NetType
<1>2. x \o <<>> = x
  BY <1>1
<1>3. [Rest EXCEPT !.toBroker = x] = Rest
  <2> HIDE DEF x, u
  <2>. QED
    BY <1>1
<1>. QED
  BY <1>2, <1>3 DEF Sent

(* Whatever the packet, what cycle makes of it is good: with its reply     *)
(* sent, and with the connection broken before that.                       *)
LEMMA HandledIsGood ==
    ASSUME IInv, Turning, net.toClient # <<>>,
           NEW h, h = Handled(cl, First),
           NEW d, d = IF h.hands THEN [delivered EXCEPT ![First.about] = @ + 1] ELSE delivered
    PROVE  /\ Now(h.after, op, Sent(Rest, h.reply), d) /\ Took(Sent(Rest, h.reply), First)
           /\ Now(h.before, op, Broken(Rest), d)
<1>1. Now(cl, op, Rest, delivered) /\ Took(Rest, First) /\ First \in Packet
  BY RestIsGood, RestFields
<1>2. Now(cl, op, Broken(Rest), delivered)
  BY <1>1, GoodBroken DEF Now
<1>3. CASE First.type = "publish"
  <2> DEFINE id == First.id
             ack == Pkt("puback", id, NULL)
             rec == Pkt("pubrec", id, NULL)
             used == useQoS2msgid(cl, id)
             more == [delivered EXCEPT ![First.about] = @ + 1]
  <2>1. h = OnPublish(cl, First)
    BY <1>3 DEF Handled
  <2>2. \A c, n, e : Now(c, op, Sent(Rest, n), e) => Now(c, op, Broken(Rest), e)
    <3>1. \A n : Broken(Sent(Rest, n)) = Broken(Rest)
      BY DEF Broken
    <3>. QED
      BY <3>1, GoodBroken DEF Now
  <2>3. CASE Qos[First.about] = 1
    <3>1. h.before = cl /\ h.after = cl /\ h.reply = <<ack>> /\ h.hands = TRUE
      BY <2>1, <2>3 DEF OnPublish
    <3>2. d = more
      BY <3>1
    <3>3. Now(cl, op, Sent(Rest, <<ack>>), d) /\ Took(Sent(Rest, <<ack>>), First)
      BY <1>3, <2>3, <3>2, Publish1IsGood
    <3>. QED
      BY <2>2, <3>1, <3>3
  <2>4. CASE Qos[First.about] # 1 /\ isQoS2msgidFree(cl, id)
    <3>1. Qos[First.about] = 2
      BY <1>3, <2>4, PublishFields
    <3>2. \A e : e = more => /\ Now(used, op, Sent(Rest, <<rec>>), e)
                             /\ Took(Sent(Rest, <<rec>>), First) /\ used # cl
      BY <1>3, <2>4, <3>1, NewIsGood
    <3> DEFINE y == isQoS2msgidFree(cl, id) /\ used # cl
    <3>3. h = [before |-> used, after |-> used, reply |-> <<rec>>, hands |-> y]
      BY <2>1, <2>4 DEF OnPublish
    <3>0. y
      BY <2>4, <3>2
    <3> HIDE DEF used, rec, more, y
    <3>4. h.before = used /\ h.after = used /\ h.reply = <<rec>> /\ h.hands = y
      BY <3>3
    <3>5. d = more
      BY <3>0, <3>4 DEF more
    <3>. QED
      BY <2>2, <3>2, <3>4, <3>5
  <2>5. CASE Qos[First.about] # 1 /\ ~isQoS2msgidFree(cl, id)
    <3>1. Qos[First.about] = 2
      BY <1>3, <2>5, PublishFields
    <3>2. Now(cl, op, Sent(Rest, <<rec>>), delivered) /\ Took(Sent(Rest, <<rec>>), First)
      BY <1>3, <2>5, <3>1, RepeatedIsGood
    <3> DEFINE y == isQoS2msgidFree(cl, id) /\ cl # cl
    <3>3. h = [before |-> cl, after |-> cl, reply |-> <<rec>>, hands |-> y]
      BY <2>1, <2>5 DEF OnPublish
    <3>0. ~y
      BY <2>5
    <3> HIDE DEF rec, y
    <3>4. h.before = cl /\ h.after = cl /\ h.reply = <<rec>> /\ h.hands = y
      BY <3>3
    <3>5. d = delivered
      BY <3>0, <3>4
    <3>. QED
      BY <2>2, <3>2, <3>4, <3>5
  <2>. QED
    BY <2>3, <2>4, <2>5
<1>4. CASE First.type = "pubrec"
  <2> DEFINE q == Pkt("pubrel", First.id, NULL)
  <2>1. h = OnPubrec(cl, First)
    BY <1>4 DEF Handled
  <2>2. h.before = cl /\ h.after = cl /\ h.reply = <<q>> /\ h.hands = FALSE
    BY <2>1 DEF OnPubrec, NoReply
  <2>3. q \in Packet /\ q.type = "pubrel"
    BY <1>1 DEF Pkt, Packet, Requests, Abouts
  <2>4. Now(cl, op, Sent(Rest, <<q>>), delivered) /\ Took(Sent(Rest, <<q>>), First)
    BY <1>4, <2>3, TurningIsLive, PubrecIsGood
  <2>. QED
    BY <1>2, <2>2, <2>4
<1>5. CASE First.type = "pubrel"
  <2> DEFINE q == Pkt("pubcomp", First.id, NULL)
             freed == freeQoS2msgid(cl, First.id)
  <2>1. h = OnPubrel(cl, First)
    BY <1>5 DEF Handled
  <2>2. h.before = cl /\ h.after = freed /\ h.reply = <<q>> /\ h.hands = FALSE
    BY <2>1 DEF OnPubrel, NoReply
  <2>3. Now(freed, op, Sent(Rest, <<q>>), delivered) /\ Took(Sent(Rest, <<q>>), First)
    BY <1>5, PubrelIsGood
  <2>. QED
    BY <1>2, <2>2, <2>3
<1>6. CASE First.type = "pingresp"
  <2> DEFINE c == [cl EXCEPT !.ping_outstanding = FALSE]
  <2>1. h = OnPingresp(cl, First)
    BY <1>6 DEF Handled
  <2>2. h.before = c /\ h.after = c /\ h.reply = <<>> /\ h.hands = FALSE
    BY <2>1 DEF OnPingresp, NoReply
  <2>3. Now(c, op, Rest, delivered)
    BY <1>1, PingOnly
  <2>4. Now(c, op, Broken(Rest), delivered)
    BY <2>3, GoodBroken DEF Now
  <2>. QED
    BY <1>1, <2>2, <2>3, <2>4, NothingSent
<1>7. CASE First.type \notin {"publish", "pubrec", "pubrel", "pingresp"}
  <2>1. h = NoReply(cl)
    BY <1>7 DEF Handled
  <2>2. h.before = cl /\ h.after = cl /\ h.reply = <<>> /\ h.hands = FALSE
    BY <2>1 DEF NoReply
  <2>. QED
    BY <1>1, <1>2, <2>2, NothingSent
<1>. QED
  BY <1>3, <1>4, <1>5, <1>6, <1>7

-----------------------------------------------------------------------------
(* Every step keeps the invariant. *)

LEMMA Primed ==
    ASSUME option' = option,
           Good(cl', op', net', broker', delivered', published', arrived'),
           acked' \subseteq arrived', published' \subseteq Outgoing
    PROVE  IInv'
BY DEF IInv, Good, Kept, Inward, UnderWay, PublishOf, Table, Fresh

(* The steps of the client that the broker does not see at once. *)
LEMMA ClientStep ==
    ASSUME IInv, UNCHANGED <<broker, option, published, arrived>>, After(delivered')
    PROVE  IInv'
<1>1. Good(cl', op', net', broker', delivered', published', arrived')
  BY DEF After, Now
<1>. QED
  BY <1>1, Primed DEF IInv, After

LEMMA CycleKeeps == IInv /\ cycle => IInv'
<1> SUFFICES ASSUME IInv, cycle
             PROVE  IInv'
  OBVIOUS
<1> DEFINE h == Handled(cl, First)
<1>1. /\ Turning /\ net.toClient # <<>>
      /\ delivered' = IF h.hands THEN [delivered EXCEPT ![First.about] = @ + 1] ELSE delivered
      /\ \/ keepalive(h.after, Sent(Rest, h.reply), First)
         \/ CycleFails(h.before, Broken(Rest))
      /\ UNCHANGED <<broker, option, published, arrived>>
  BY DEF cycle, First, Rest
<1>2. /\ Now(h.after, op, Sent(Rest, h.reply), delivered') /\ Took(Sent(Rest, h.reply), First)
      /\ Now(h.before, op, Broken(Rest), delivered')
  BY <1>1, HandledIsGood
<1>3. acked \subseteq arrived
  BY DEF IInv
<1> HIDE DEF h
<1>4. After(delivered')
  BY <1>1, <1>2, <1>3, KeepaliveIsGood, CycleFailsIsGood
<1>. QED
  BY <1>1, <1>4, ClientStep

LEMMA CycleNothingKeeps == IInv /\ cycle_nothing => IInv'
<1> SUFFICES ASSUME IInv, cycle_nothing
             PROVE  IInv'
  OBVIOUS
<1> DEFINE p == Pkt("none", 0, NULL)
<1>1. /\ keepalive(cl, net, p) \/ CycleFails(cl, net)
      /\ UNCHANGED <<broker, option, published, arrived, delivered>>
  BY DEF cycle_nothing
<1>2. Now(cl, op, net, delivered) /\ acked \subseteq arrived
  BY DEF IInv, Now
<1>3. Took(net, p)
  BY DEF Took, Pkt, Acks
<1>4. After(delivered)
  BY <1>1, <1>2, <1>3, KeepaliveIsGood, CycleFailsIsGood
<1>. QED
  BY <1>1, <1>4, ClientStep

LEMMA TimeoutKeeps == IInv /\ waitfor_times_out => IInv'
<1> SUFFICES ASSUME IInv, waitfor_times_out
             PROVE  IInv'
  OBVIOUS
<1>1. CallFails(cl, net, TRUE) /\ UNCHANGED <<broker, option, published, arrived, delivered>>
  BY DEF waitfor_times_out
<1>2. Now(cl, op, net, delivered) /\ acked \subseteq arrived
  BY DEF IInv, Now
<1>3. After(delivered)
  BY <1>1, <1>2, CallFailsIsGood
<1>. QED
  BY <1>1, <1>3, ClientStep

(* Before and after a call that fails at once, no call is in progress. *)
LEMMA StillNoCall ==
    ASSUME IInv, op.wait = NULL, NEW c, NEW n, NEW pub,
           Good(c, Idle, n, broker, delivered, pub, arrived)
    PROVE  Good(c, op, n, broker, delivered, pub, arrived)
<1>1. OpType(op) /\ op.wait = Idle.wait /\ op.wait \notin Acks
  BY IdleFacts DEF IInv, Good, Types
<1>. QED
  BY <1>1, NoCall

LEMMA SendFails ==
    ASSUME IInv, op.wait = NULL, NEW c, NEW o, NEW pub,
           Good(c, o, net, broker, delivered, pub, arrived)
    PROVE  Good(closeSession(c), op, Broken(net), broker, delivered, pub, arrived)
<1>1. Good(c, o, Broken(net), broker, delivered, pub, arrived)
  BY GoodBroken
<1>2. Good(closeSession(c), Idle, Broken(net), broker, delivered, pub, arrived)
  BY <1>1, GoodClosed
<1>. QED
  BY <1>2, StillNoCall

LEMMA ConnectKeeps == IInv /\ connect => IInv'
<1> SUFFICES ASSUME IInv, connect
             PROVE  IInv'
  OBVIOUS
<1>1. /\ op.wait = NULL /\ ~cl.isconnected /\ cl' = [cl EXCEPT !.cleansession = option]
      /\ \/ /\ net' = [up |-> TRUE, toBroker |-> <<Pkt("connect", 0, NULL)>>, toClient |-> <<>>]
            /\ op' = Wait("connack", NULL)
         \/ net' = Broken(net) /\ op' = op
      /\ UNCHANGED <<broker, option, published, acked, arrived, delivered>>
  BY DEF connect
<1>2. cl' = [isconnected |-> cl.isconnected, cleansession |-> option,
            ping_outstanding |-> cl.ping_outstanding, next |-> cl.next, pubbuf |-> cl.pubbuf,
            inflightMsgid |-> cl.inflightMsgid, inflightQoS |-> cl.inflightQoS, pubrel |-> cl.pubrel,
            incoming |-> cl.incoming, handlers |-> cl.handlers]
  BY <1>1 DEF IInv, Good, Types, ClientType
<1>3. /\ ClientType(cl') /\ ~cl'.isconnected /\ cl'.cleansession = option
      /\ cl'.pubbuf = cl.pubbuf /\ cl'.inflightMsgid = cl.inflightMsgid
      /\ cl'.pubrel = cl.pubrel /\ cl'.incoming = cl.incoming
  BY <1>1, <1>2 DEF IInv, Good, Types, ClientType
<1>4. OpType(op') /\ op'.wait \in {NULL, "connack"} /\ op'.wait \notin Acks
  BY <1>1, NullWaits DEF IInv, Good, Types, OpType, Wait, Waits
<1>5. /\ NetType(net') /\ net'.toClient = <<>> /\ DOMAIN net'.toClient = {}
      /\ \A i \in DOMAIN net'.toBroker : i = 1 /\ net'.toBroker[i].type = "connect"
  <2>1. CASE net' = Broken(net)
    BY <2>1 DEF Broken, NetType
  <2>2. CASE net' = [up |-> TRUE, toBroker |-> <<Pkt("connect", 0, NULL)>>, toClient |-> <<>>]
    <3>1. Pkt("connect", 0, NULL) \in Packet /\ Pkt("connect", 0, NULL).type = "connect"
      BY DEF Pkt, Packet, Others, Abouts
    <3>. QED
      BY <2>2, <3>1 DEF NetType
  <2>. QED
    BY <1>1, <2>1, <2>2
<1>6. Types(cl', op', net', broker, delivered)
  BY <1>3, <1>4, <1>5 DEF IInv, Good, Types
<1>7. Outward(cl', op', net', arrived)
  BY <1>4, <1>5 DEF Outward, No, Requests
<1>8. Kept(cl', op', published, arrived)
  BY <1>3, <1>4 DEF IInv, Good, Kept
<1>9. Once(net'.toBroker, net'.toClient)
  BY <1>5 DEF Once, Replies
<1>10. UnderWay(cl', net', broker, delivered)
  BY <1>5 DEF UnderWay, Replies
<1>11. Table(cl', broker, delivered)
  BY <1>3 DEF IInv, Good, Inward, Table
<1>12. Fresh(cl', op', net')
  BY <1>1, <1>3, <1>5 DEF IInv, Good, Inward, Fresh, No, Replies
<1>13. Good(cl', op', net', broker', delivered', published', arrived')
  BY <1>1, <1>6, <1>7, <1>8, <1>9, <1>10, <1>11, <1>12 DEF IInv, Good, Inward
<1>. QED
  BY <1>1, <1>13, Primed DEF IInv

LEMMA NextFields ==
    ASSUME NEW c, ClientType(c), NEW k, k = [c EXCEPT !.next = getNext(c.next)]
    PROVE  /\ ClientType(k) /\ k.isconnected = c.isconnected /\ k.cleansession = c.cleansession
           /\ k.pubbuf = c.pubbuf /\ k.inflightMsgid = c.inflightMsgid /\ k.pubrel = c.pubrel
           /\ k.incoming = c.incoming
           /\ getNext(c.next) \in Nat /\ getNext(c.next) > 0
<1> DEFINE id == getNext(c.next)
<1>1. id \in Nat /\ id > 0
  BY DEF getNext, ClientType
<1> HIDE DEF id
<1>2. k = [c EXCEPT !.next = id]
  BY DEF id
<1>3. k = [isconnected |-> c.isconnected, cleansession |-> c.cleansession,
            ping_outstanding |-> c.ping_outstanding, next |-> id, pubbuf |-> c.pubbuf,
            inflightMsgid |-> c.inflightMsgid, inflightQoS |-> c.inflightQoS, pubrel |-> c.pubrel,
            incoming |-> c.incoming, handlers |-> c.handlers]
  BY <1>2 DEF ClientType
<1>4. /\ ClientType(k) /\ k.isconnected = c.isconnected /\ k.cleansession = c.cleansession
      /\ k.pubbuf = c.pubbuf /\ k.inflightMsgid = c.inflightMsgid /\ k.pubrel = c.pubrel
      /\ k.incoming = c.incoming
  BY <1>1, <1>3 DEF ClientType
<1>. QED
  BY <1>1, <1>4 DEF id

(* SUBSCRIBE and UNSUBSCRIBE. *)
LEMMA AsksIsGood ==
    ASSUME IInv, MayCall, UNCHANGED <<broker, option, published, acked, arrived, delivered>>,
           NEW w \in {"suback", "unsuback"}, NEW ty \in {"subscribe", "unsubscribe"}, NEW f,
           Call([cl EXCEPT !.next = getNext(cl.next)], Pkt(ty, getNext(cl.next), NULL), w, f)
    PROVE  IInv'
<1> DEFINE c == [cl EXCEPT !.next = getNext(cl.next)]
           p == Pkt(ty, getNext(cl.next), NULL)
           o == Wait(w, f)
<1>1. ClientType(cl) /\ op.wait = NULL /\ cl.isconnected
  BY DEF IInv, Good, Types, MayCall
<1>2. /\ ClientType(c) /\ c.isconnected = cl.isconnected /\ c.cleansession = cl.cleansession
      /\ c.pubbuf = cl.pubbuf /\ c.inflightMsgid = cl.inflightMsgid /\ c.pubrel = cl.pubrel
      /\ c.incoming = cl.incoming /\ getNext(cl.next) \in Nat
  BY <1>1, NextFields
<1>3. p \in Packet /\ p.type \notin Requests \cup Replies \cup {"connect"}
  BY <1>2 DEF Pkt, Packet, Requests, Replies, Others, Abouts
<1>4. OpType(o) /\ o.wait = w /\ o.wait \notin Acks /\ o.wait # "connack" /\ o.wait # NULL
  BY MqttSessionAssumption DEF OpType, Wait, Waits, Acks
<1> HIDE DEF c, p, o
<1>5. Now(c, op, net, delivered)
  BY <1>2, SameClient DEF IInv, Now
<1>6. Now(c, o, net, delivered)
  <2>1. Types(c, o, net, broker, delivered)
    BY <1>4, <1>5 DEF Now, Good, Types
  <2>2. Outward(c, o, net, arrived)
    BY <1>1, <1>2, <1>4, <1>5, NullWaits DEF Now, Good, Outward, Live
  <2>3. Kept(c, o, published, arrived)
    BY <1>1, <1>2, <1>4, <1>5, NullWaits DEF Now, Good, Kept, Live
  <2>4. Fresh(c, o, net)
    BY <1>1, <1>2, <1>4, <1>5 DEF Now, Good, Inward, Fresh
  <2>. QED
    BY <1>5, <2>1, <2>2, <2>3, <2>4 DEF Now, Good, Inward
<1>7. Now(c, o, Sent(net, <<p>>), delivered)
  BY <1>3, <1>6, GoodSent DEF Now
<1>8. Now(closeSession(c), op, Broken(net), delivered)
  BY <1>1, <1>6, SendFails DEF Now
<1>9. \/ cl' = c /\ op' = o /\ net' = Sent(net, <<p>>)
      \/ cl' = closeSession(c) /\ op' = op /\ net' = Broken(net)
  BY DEF Call, c, p, o
<1>10. After(delivered) /\ delivered' = delivered
  BY <1>7, <1>8, <1>9 DEF After, IInv
<1>. QED
  BY <1>10, ClientStep

LEMMA SubscribeKeeps == ASSUME IInv, NEW f \in Filters, subscribe(f) \/ unsubscribe(f)
                        PROVE  IInv'
<1>1. CASE subscribe(f)
  BY <1>1, AsksIsGood DEF subscribe
<1>2. CASE unsubscribe(f)
  BY <1>2, AsksIsGood DEF unsubscribe
<1>. QED
  BY <1>1, <1>2

LEMMA SetHandlerKeeps == ASSUME IInv, NEW f \in Filters, set_handler(f)
                         PROVE  IInv'
<1>1. Now(cl, op, net, delivered)
  BY DEF IInv, Now
<1>2. Now(cl', op, net, delivered)
  BY <1>1, SetHandlerIsGood DEF set_handler
<1>3. After(delivered')
  BY <1>2 DEF set_handler, After, IInv
<1>. QED
  BY <1>3, ClientStep DEF set_handler

LEMMA UnconnectedKeeps == IInv /\ subscribe_unconnected => IInv'
<1> SUFFICES ASSUME IInv, subscribe_unconnected
             PROVE  IInv'
  OBVIOUS
<1>1. Now(closeSession(cl), Idle, net, delivered)
  BY GoodClosed DEF IInv, Now
<1>2. Now(closeSession(cl), op, net, delivered)
  BY <1>1, StillNoCall DEF Now, subscribe_unconnected
<1>3. After(delivered')
  BY <1>2 DEF subscribe_unconnected, After, IInv
<1>. QED
  BY <1>3, ClientStep DEF subscribe_unconnected

LEMMA DisconnectKeeps == IInv /\ disconnect => IInv'
<1> SUFFICES ASSUME IInv, disconnect
             PROVE  IInv'
  OBVIOUS
<1> DEFINE p == Pkt("disconnect", 0, NULL)
<1>1. Now(closeSession(cl), Idle, net, delivered)
  BY GoodClosed DEF IInv, Now
<1>2. Now(closeSession(cl), op, net, delivered)
  BY <1>1, StillNoCall DEF Now, disconnect
<1>3. p \in Packet /\ p.type \notin Requests \cup Replies \cup {"connect"}
  BY DEF Pkt, Packet, Requests, Replies, Others, Abouts
<1>4. Now(closeSession(cl), op, Sent(net, <<p>>), delivered)
  BY <1>2, <1>3, GoodSent DEF Now
<1>5. After(delivered')
  BY <1>4 DEF disconnect, After, IInv
<1>. QED
  BY <1>5, ClientStep DEF disconnect

(* What the client keeps when it publishes m with identifier id. *)
KeptFor(m, id) ==
    IF cl.cleansession THEN [cl EXCEPT !.next = id]
    ELSE [cl EXCEPT !.next = id, !.pubbuf = m, !.inflightMsgid = id,
                    !.inflightQoS = Qos[m], !.pubrel = FALSE]

LEMMA KeptFields ==
    ASSUME IInv, NEW m \in Outgoing, NEW id \in Nat, NEW c, c = KeptFor(m, id)
    PROVE  /\ ClientType(c) /\ c.isconnected = cl.isconnected /\ c.cleansession = cl.cleansession
           /\ ~c.pubrel /\ c.incoming = cl.incoming
           /\ ~cl.cleansession => c.pubbuf = m /\ c.inflightMsgid = id
<1>1. ~cl.pubrel /\ ClientType(cl)
  BY DEF IInv, Good, Types, Kept
<1>2. CASE cl.cleansession
  <2>1. c = [isconnected |-> cl.isconnected, cleansession |-> cl.cleansession,
            ping_outstanding |-> cl.ping_outstanding, next |-> id, pubbuf |-> cl.pubbuf,
            inflightMsgid |-> cl.inflightMsgid, inflightQoS |-> cl.inflightQoS, pubrel |-> cl.pubrel,
            incoming |-> cl.incoming, handlers |-> cl.handlers]
    BY <1>1, <1>2 DEF KeptFor, ClientType
  <2>. QED
    BY <1>1, <1>2, <2>1 DEF ClientType
<1>3. CASE ~cl.cleansession
  <2>1. c = [isconnected |-> cl.isconnected, cleansession |-> cl.cleansession,
            ping_outstanding |-> cl.ping_outstanding, next |-> id, pubbuf |-> m,
            inflightMsgid |-> id, inflightQoS |-> Qos[m], pubrel |-> FALSE,
            incoming |-> cl.incoming, handlers |-> cl.handlers]
    BY <1>1, <1>3 DEF KeptFor, ClientType
  <2>. QED
    BY <1>1, <1>3, <2>1 DEF ClientType
<1>. QED
  BY <1>2, <1>3

(* Nothing of an earlier publish is left when the next one is made. *)
LEMMA AllArrived ==
    ASSUME IInv, MayCall
    PROVE  /\ ~option => published \subseteq arrived
           /\ cl.cleansession = option
           /\ No(net.toBroker, Requests) /\ No(net.toClient, Replies)
<1>1. cl.isconnected /\ op.wait \notin Acks
  BY NullWaits DEF MayCall
<1>. QED
  BY <1>1 DEF IInv, Good, Kept, Outward, Live

LEMMA PublishIsGood ==
    ASSUME IInv, MayCall, NEW m \in Outgoing, NEW id \in Nat, id > 0,
           NEW c, c = KeptFor(m, id), NEW o, o = Wait(AckOf(Qos[m]), m),
           NEW p, p = Pkt("publish", id, m),
           NEW k, k = net \/ k = Sent(net, <<p>>)
    PROVE  Good(c, o, k, broker, delivered, published \cup {m}, arrived)
<1> DEFINE s == net.toBroker
           t == net.toClient
           u == s \o <<p>>
<1>1. p \in Packet /\ p.type = "publish" /\ p.about = m
  BY DEF Pkt, Packet, Requests, Abouts
<1>2. o.wait \in Acks /\ o.about = m /\ OpType(o) /\ o.wait # NULL /\ o.wait # "connack"
  BY NullWaits DEF AckOf, Acks, OpType, Waits, Wait
<1>3. /\ ClientType(c) /\ c.isconnected /\ c.cleansession = cl.cleansession
      /\ ~c.pubrel /\ c.incoming = cl.incoming
      /\ ~cl.cleansession => c.pubbuf = m /\ c.inflightMsgid = id
  <2>1. /\ ClientType(c) /\ c.isconnected = cl.isconnected /\ c.cleansession = cl.cleansession
        /\ ~c.pubrel /\ c.incoming = cl.incoming
        /\ ~cl.cleansession => c.pubbuf = m /\ c.inflightMsgid = id
    BY ONLY KeptFields, IInv, m \in Outgoing, id \in Nat, c = KeptFor(m, id)
  <2>2. cl.isconnected
    BY DEF MayCall
  <2>. QED
    BY ONLY <2>1, <2>2
<1>4. s \in Seq(Packet) /\ t \in Seq(Packet)
  BY DEF IInv, Good, Types, NetType
<1>5. /\ k.toBroker = s \/ k.toBroker = u
      /\ k.toClient = t /\ k = [up |-> net.up, toBroker |-> k.toBroker, toClient |-> t]
  <2>1. CASE k = Sent(net, <<p>>) /\ net.up
    <3>1. k = [up |-> net.up, toBroker |-> u, toClient |-> t]
      BY <2>1 DEF Sent, IInv, Good, Types, NetType
    <3>. QED
      BY <3>1
  <2>2. CASE k = net
    BY <2>2 DEF IInv, Good, Types, NetType
  <2>. QED
    BY <2>1, <2>2 DEF Sent
<1>6. /\ u \in Seq(Packet)
      /\ \A i \in DOMAIN s : i \in DOMAIN u /\ u[i] = s[i]
      /\ \A i \in DOMAIN u : i \in DOMAIN s \/ (i = Len(s) + 1 /\ u[i] = p)
  BY <1>1, <1>4, ConcatFacts
<1>7. /\ ~option => published \subseteq arrived
      /\ cl.cleansession = option /\ No(s, Requests) /\ No(t, Replies)
  BY AllArrived
<1>8. \A i \in DOMAIN s : s[i].type # "connect"
  BY DEF MayCall, IInv, Good, Inward, Fresh
<1> HIDE DEF u, s, t
<1>9. Types(c, o, k, broker, delivered)
  BY <1>2, <1>3, <1>4, <1>5, <1>6 DEF IInv, Good, Types, NetType
<1>10. Outward(c, o, k, arrived)
  BY <1>1, <1>2, <1>5, <1>6, <1>7 DEF Outward, No, Requests
<1>11. Kept(c, o, published \cup {m}, arrived)
  <2>1. CASE option
    BY <1>2, <1>3, <1>7, <2>1 DEF Kept
  <2>2. CASE ~option
    <3>1. ~c.cleansession /\ c.pubbuf = m /\ c.inflightMsgid > 0
      BY <1>3, <1>7, <2>2
    <3>2. published \cup {m} \subseteq arrived \cup (IF c.inflightMsgid > 0 THEN {c.pubbuf} ELSE {})
      BY <1>7, <2>2, <3>1
    <3>. QED
      BY <1>2, <1>3, <1>7, <2>2, <3>1, <3>2 DEF Kept
  <2>. QED
    BY <2>1, <2>2
<1>12. Once(k.toBroker, k.toClient)
  <2>1. Once(s, t)
    BY DEF IInv, Good, Inward, s, t
  <2>. QED
    BY <1>1, <1>5, <1>6, <2>1 DEF Once, Replies
<1>13. UnderWay(c, k, broker, delivered)
  <2>1. UnderWay(cl, net, broker, delivered)
    BY DEF IInv, Good, Inward
  <2>2. \A r : ReplyFor(r, cl, broker, delivered) => ReplyFor(r, c, broker, delivered)
    BY <1>3 DEF ReplyFor
  <2>. QED
    BY <1>1, <1>5, <1>6, <2>1, <2>2 DEF UnderWay, Replies, s, t
<1>14. Table(c, broker, delivered)
  BY <1>3 DEF IInv, Good, Inward, Table
<1>15. Fresh(c, o, k)
  BY <1>1, <1>2, <1>3, <1>5, <1>6, <1>8 DEF Fresh
<1>. QED
  BY <1>9, <1>10, <1>11, <1>12, <1>13, <1>14, <1>15 DEF IInv, Good, Inward

LEMMA PublishKeeps == ASSUME IInv, NEW m \in Outgoing, publish(m)
                      PROVE  IInv'
<1> DEFINE id == getNext(cl.next)
           c == KeptFor(m, id)
           o == Wait(AckOf(Qos[m]), m)
           p == Pkt("publish", id, m)
<1>1. MayCall /\ UNCHANGED <<broker, option, acked, arrived, delivered>>
      /\ published' = published \cup {m}
  BY DEF publish
<1>2. id \in Nat /\ id > 0
  BY NextFields DEF IInv, Good, Types
<1>3. \/ cl' = c /\ op' = o /\ net' = Sent(net, <<p>>)
      \/ cl' = closeSession(c) /\ op' = op /\ net' = Broken(net)
  BY DEF publish, Call, KeptFor
<1>4. \A k : k = net \/ k = Sent(net, <<p>>) =>
           Good(c, o, k, broker, delivered, published \cup {m}, arrived)
  BY <1>1, <1>2, PublishIsGood
<1> HIDE DEF c, o, p
<1>5. Good(c, o, Sent(net, <<p>>), broker, delivered, published', arrived)
  BY <1>1, <1>4
<1>6. Good(closeSession(c), op, Broken(net), broker, delivered, published', arrived)
  <2>1. Good(c, o, net, broker, delivered, published', arrived)
    BY <1>1, <1>4
  <2>. QED
    BY <1>1, <2>1, SendFails DEF MayCall
<1>7. Good(cl', op', net', broker', delivered', published', arrived')
  BY <1>1, <1>3, <1>5, <1>6
<1>. QED
  BY <1>1, <1>7, Primed DEF IInv

LEMMA Publish0Keeps == IInv /\ publish_QOS0 => IInv'
<1> SUFFICES ASSUME IInv, publish_QOS0
             PROVE  IInv'
  OBVIOUS
<1> DEFINE c == IF cl.cleansession THEN cl
                ELSE [cl EXCEPT !.pubbuf = NULL, !.inflightMsgid = 0, !.inflightQoS = 0,
                                !.pubrel = FALSE]
<1>1. /\ MayCall /\ UNCHANGED <<op, broker, option, published, acked, arrived, delivered>>
      /\ \/ cl' = c /\ net' = net
         \/ cl' = closeSession(c) /\ net' = Broken(net)
  BY DEF publish_QOS0
<1>2. Now(c, op, net, delivered)
  <2>1. CASE cl.cleansession
    BY <2>1 DEF IInv, Now
  <2>2. CASE ~cl.cleansession
    <3>1. c = [isconnected |-> cl.isconnected, cleansession |-> cl.cleansession,
            ping_outstanding |-> cl.ping_outstanding, next |-> cl.next, pubbuf |-> NULL,
            inflightMsgid |-> 0, inflightQoS |-> 0, pubrel |-> FALSE,
            incoming |-> cl.incoming, handlers |-> cl.handlers]
      BY <2>2 DEF IInv, Good, Types, ClientType
    <3> HIDE DEF c
    <3>2. /\ ClientType(c) /\ c.isconnected = cl.isconnected /\ c.cleansession = cl.cleansession
          /\ ~c.pubrel /\ c.incoming = cl.incoming /\ c.inflightMsgid = 0
      BY <3>1 DEF IInv, Good, Types, ClientType
    <3>3. Types(c, op, net, broker, delivered)
      BY <3>2 DEF IInv, Good, Types
    <3>4. Outward(c, op, net, arrived)
      BY <3>2 DEF IInv, Good, Outward, Live
    <3>5. Kept(c, op, published, arrived)
      <4>1. /\ ~option => published \subseteq arrived
            /\ cl.cleansession = option /\ op.wait \notin Acks
        BY <1>1, AllArrived, NullWaits DEF MayCall
      <4>. QED
        BY <2>2, <3>2, <4>1 DEF Kept
    <3>6. UnderWay(c, net, broker, delivered)
      BY <3>2 DEF IInv, Good, Inward, UnderWay, ReplyFor
    <3>7. Table(c, broker, delivered)
      BY <3>2 DEF IInv, Good, Inward, Table
    <3>8. Fresh(c, op, net)
      BY <3>2 DEF IInv, Good, Inward, Fresh
    <3>. QED
      BY <3>3, <3>4, <3>5, <3>6, <3>7, <3>8 DEF IInv, Now, Good, Inward
  <2>. QED
    BY <2>1, <2>2
<1> HIDE DEF c
<1>3. Now(closeSession(c), op, Broken(net), delivered)
  BY <1>1, <1>2, SendFails DEF Now, MayCall
<1>4. After(delivered')
  BY <1>1, <1>2, <1>3 DEF After, IInv
<1>. QED
  BY <1>1, <1>4, ClientStep

-----------------------------------------------------------------------------
(* The broker and the network. *)

LEMMA BreaksKeeps == IInv /\ Breaks => IInv'
<1> SUFFICES ASSUME IInv, Breaks
             PROVE  IInv'
  OBVIOUS
<1>1. Good(cl, op, Broken(net), broker, delivered, published, arrived)
  BY GoodBroken DEF IInv
<1>2. Good(cl', op', net', broker', delivered', published', arrived')
  BY <1>1 DEF Breaks
<1>. QED
  BY <1>2, Primed DEF IInv, Breaks

(* More messages may have arrived. *)
LEMMA MoreArrived ==
    ASSUME NEW c, NEW o, NEW n, NEW b, NEW d, NEW pub, NEW arr, Good(c, o, n, b, d, pub, arr),
           NEW more, arr \subseteq more
    PROVE  Good(c, o, n, b, d, pub, more)
<1>1. Outward(c, o, n, more)
  BY DEF Good, Outward
<1>2. Kept(c, o, pub, more)
  BY DEF Good, Kept
<1>. QED
  BY <1>1, <1>2 DEF Good

(* The broker's record of its messages changes. *)
LEMMA BrokerChanges ==
    ASSUME NEW c, NEW o, NEW n, NEW b, NEW d, NEW pub, NEW arr, Good(c, o, n, b, d, pub, arr),
           NEW e, BrokerType(e), Numbered(e), UnderWay(c, n, e, d), Table(c, e, d), Deliveries(e, d)
    PROVE  Good(c, o, n, e, d, pub, arr)
BY DEF Good, Types, Inward

(* The broker sends a packet. *)
LEMMA BrokerSends ==
    ASSUME NEW c, NEW o, NEW n, NEW b, NEW d, NEW pub, NEW arr, Good(c, o, n, b, d, pub, arr),
           No(n.toBroker, {"connect"}), NEW a \in Packet,
           a.type \in Replies /\ Live(c, o) =>
               /\ o.wait \in Acks /\ o.about \in arr
               /\ No(n.toBroker, Requests) /\ No(n.toClient, Replies),
           a.type \in Requests =>
               /\ \A i \in DOMAIN n.toBroker : n.toBroker[i].type \in Replies => n.toBroker[i].id # a.id
               /\ \A i \in DOMAIN n.toClient : n.toClient[i].type \in Requests => n.toClient[i].id # a.id,
           a.type = "publish" => PublishOf(a, b, d) /\ c.isconnected,
           a.type = "pubrel" => ReleaseOf(a, b),
           NEW k, k = [n EXCEPT !.toClient = @ \o <<a>>]
    PROVE  Good(c, o, k, b, d, pub, arr)
<1> DEFINE s == n.toBroker
           t == n.toClient
           u == t \o <<a>>
<1>1. s \in Seq(Packet) /\ t \in Seq(Packet)
  BY DEF Good, Types, NetType
<1>2. k = [up |-> n.up, toBroker |-> s, toClient |-> u]
  BY DEF Good, Types, NetType
<1>3. /\ u \in Seq(Packet)
      /\ \A i \in DOMAIN t : i \in DOMAIN u /\ u[i] = t[i]
      /\ \A i \in DOMAIN u : i \in DOMAIN t \/ (i = Len(t) + 1 /\ u[i] = a)
  BY <1>1, ConcatFacts
<1> HIDE DEF u
<1>4. k.toBroker = s /\ k.toClient = u
  BY <1>2
<1>5. Types(c, o, k, b, d)
  BY <1>1, <1>2, <1>3, <1>4 DEF Good, Types, NetType
<1>6. Outward(c, o, k, arr)
  <2>1. CASE a.type \notin Replies
    BY <1>3, <1>4, <2>1 DEF Good, Outward, No
  <2>2. CASE a.type \in Replies /\ ~Live(c, o)
    BY <2>2, NullWaits DEF Outward, Live
  <2>3. CASE a.type \in Replies /\ Live(c, o)
    BY <1>3, <1>4, <2>3 DEF Good, Outward, No
  <2>. QED
    BY <2>1, <2>2, <2>3
<1>7. Once(s, u)
  <2>1. Once(s, t)
    BY DEF Good, Inward
  <2>. QED
    BY <1>3, <2>1 DEF Once
<1>8. UnderWay(c, k, b, d)
  <2>1. UnderWay(c, n, b, d)
    BY DEF Good, Inward
  <2>. QED
    BY <1>3, <1>4, <2>1 DEF UnderWay
<1>9. Fresh(c, o, k)
  <2>1. option /\ ~c.isconnected /\ o.wait # NULL => No(u, {"publish"})
    BY <1>3 DEF Good, Inward, Fresh, No
  <2>. QED
    BY <1>4, <2>1 DEF Good, Inward, Fresh, No
<1>. QED
  BY <1>4, <1>5, <1>6, <1>7, <1>8, <1>9 DEF Good, Inward

Taken == [net EXCEPT !.toBroker = Tail(@)]
Received == Head(net.toBroker)

LEMMA TakenFields ==
    ASSUME IInv, net.toBroker # <<>>
    PROVE  /\ Taken = [up |-> net.up, toBroker |-> Tail(net.toBroker), toClient |-> net.toClient]
           /\ Taken.toBroker = Tail(net.toBroker) /\ Taken.toClient = net.toClient
           /\ NetType(Taken) /\ Received \in Packet
           /\ Received = net.toBroker[1] /\ 1 \in DOMAIN net.toBroker
<1>1. net.toClient \in Seq(Packet) /\ net.toBroker \in Seq(Packet)
  BY DEF IInv, Good, Types, NetType
<1>2. Taken = [up |-> net.up, toBroker |-> Tail(net.toBroker), toClient |-> net.toClient]
  <2>1. net = [up |-> net.up, toBroker |-> net.toBroker, toClient |-> net.toClient]
    BY DEF IInv, Good, Types, NetType
  <2> DEFINE x == net.toBroker
             y == Tail(x)
  <2>2. [net EXCEPT !.toBroker = y] = [up |-> net.up, toBroker |-> y, toClient |-> net.toClient]
    <3> HIDE DEF x, y
    <3>. QED
      BY <2>1
  <2>. QED
    BY <2>2 DEF Taken
<1>3. /\ Tail(net.toBroker) \in Seq(Packet) /\ Received \in Packet
      /\ Received = net.toBroker[1] /\ 1 \in DOMAIN net.toBroker
  BY <1>1, TailFacts DEF Received
<1>. QED
  BY <1>1, <1>2, <1>3 DEF NetType

(* The broker takes a packet: nothing else of its handshake is left. *)
LEMMA TakenIsGood ==
    ASSUME IInv, net.toBroker # <<>>
    PROVE  /\ Good(cl, op, Taken, broker, delivered, published, arrived)
           /\ No(Taken.toBroker, {"connect"})
           /\ Received.type \in Replies =>
                 /\ ReplyFor(Received, cl, broker, delivered)
                 /\ \A i \in DOMAIN Taken.toBroker :
                       Taken.toBroker[i].type \in Replies => Taken.toBroker[i].id # Received.id
                 /\ \A i \in DOMAIN Taken.toClient :
                       Taken.toClient[i].type \in Requests => Taken.toClient[i].id # Received.id
           /\ Received.type \in Requests /\ Live(cl, op) =>
                 /\ op.wait \in Acks
                 /\ No(Taken.toBroker, Requests) /\ No(Taken.toClient, Replies)
                 /\ Received.type = "publish" => Received.about = op.about
                 /\ Received.type = "pubrel" => op.about \in arrived
<1> DEFINE s == net.toBroker
           t == net.toClient
           u == Tail(s)
<1>1. /\ Taken.toBroker = u /\ Taken.toClient = t /\ NetType(Taken)
      /\ Received = s[1] /\ 1 \in DOMAIN s
  BY TakenFields
<1>2. /\ \A i \in DOMAIN u : i + 1 \in DOMAIN s /\ u[i] = s[i + 1] /\ i + 1 # 1
      /\ \A i, j \in DOMAIN u : i + 1 = j + 1 => i = j
  BY TailFacts DEF IInv, Good, Types, NetType
<1> HIDE DEF u
<1>3. Types(cl, op, Taken, broker, delivered)
  BY <1>1 DEF IInv, Good, Types
<1>4. Outward(cl, op, Taken, arrived)
  BY <1>1, <1>2 DEF IInv, Good, Outward, No
<1>5. Once(Taken.toBroker, Taken.toClient)
  BY <1>1, <1>2 DEF IInv, Good, Inward, Once
<1>6. UnderWay(cl, Taken, broker, delivered)
  BY <1>1, <1>2 DEF IInv, Good, Inward, UnderWay
<1>7. No(u, {"connect"})
  BY <1>2 DEF IInv, Good, Inward, Fresh, No
<1>8. Fresh(cl, op, Taken)
  BY <1>1, <1>7 DEF IInv, Good, Inward, Fresh, No
<1>9. Good(cl, op, Taken, broker, delivered, published, arrived)
  BY <1>3, <1>4, <1>5, <1>6, <1>8 DEF IInv, Good, Inward
<1>10. ASSUME Received.type \in Replies
       PROVE  /\ ReplyFor(Received, cl, broker, delivered)
              /\ \A i \in DOMAIN u : u[i].type \in Replies => u[i].id # Received.id
              /\ \A i \in DOMAIN t : t[i].type \in Requests => t[i].id # Received.id
  <2>1. ReplyFor(Received, cl, broker, delivered)
    BY <1>1, <1>10 DEF IInv, Good, Inward, UnderWay
  <2>2. \A i \in DOMAIN u : u[i].type \in Replies => u[i].id # Received.id
    BY <1>1, <1>2, <1>10 DEF IInv, Good, Inward, Once
  <2>3. \A i \in DOMAIN t : t[i].type \in Requests => t[i].id # Received.id
    BY <1>1, <1>10 DEF IInv, Good, Inward, Once
  <2>. QED
    BY <2>1, <2>2, <2>3
<1>11. ASSUME Received.type \in Requests, Live(cl, op)
       PROVE  /\ op.wait \in Acks
              /\ No(u, Requests) /\ No(t, Replies)
              /\ Received.type = "publish" => Received.about = op.about
              /\ Received.type = "pubrel" => op.about \in arrived
  <2>1. op.wait \in Acks
    BY <1>1, <1>11 DEF IInv, Good, Outward, No
  <2>2. No(u, Requests)
    BY <1>1, <1>2, <1>11, <2>1 DEF IInv, Good, Outward, No
  <2>3. No(t, Replies)
    BY <1>1, <1>11, <2>1 DEF IInv, Good, Outward, No
  <2>4. /\ Received.type = "publish" => Received.about = op.about
        /\ Received.type = "pubrel" => op.about \in arrived
    BY <1>1, <2>1 DEF IInv, Good, Outward
  <2>. QED
    BY <2>1, <2>2, <2>3, <2>4
<1>. QED
  BY <1>1, <1>7, <1>9, <1>10, <1>11

(* The broker marks the message with the identifier of a reply. *)
Mark(id, from, to) ==
    [broker EXCEPT !.out = [m \in Incoming |->
        IF (m \in InFlight /\ broker.id[m] = id) /\ @[m] = from THEN to ELSE @[m]]]

LEMMA MarkIsGood ==
    ASSUME NEW n, Good(cl, op, n, broker, delivered, published, arrived),
           NEW m \in Flying(broker), delivered[m] >= 1, NEW id, broker.id[m] = id,
           \A i \in DOMAIN n.toBroker : n.toBroker[i].type \in Replies => n.toBroker[i].id # id,
           \A i \in DOMAIN n.toClient : n.toClient[i].type \in Requests => n.toClient[i].id # id,
           NEW from \in States, NEW to \in {"rec", "done"},
           to = "done" => \A i \in Slots : cl.incoming[i] # id,
           NEW b, b = Mark(id, from, to)
    PROVE  /\ Good(cl, op, n, b, delivered, published, arrived)
           /\ from = "sent" /\ to = "rec" => b.out[m] = "rec" /\ b.id[m] = id /\ m \in Flying(b)
<1> DEFINE F == Flying(broker)
           x == [k \in Incoming |->
                   IF (k \in InFlight /\ broker.id[k] = id) /\ broker.out[k] = from THEN to
                   ELSE broker.out[k]]
<1>1. /\ BrokerType(broker) /\ Numbered(broker) /\ UnderWay(cl, n, broker, delivered)
      /\ Table(cl, broker, delivered) /\ Deliveries(broker, delivered)
  BY DEF Good, Types, Inward
<1>2. InFlight = F
  BY DEF InFlight, Flying
<1>3. /\ \A k \in F : k \in Incoming /\ broker.out[k] \in {"sent", "rec"} /\ broker.id[k] # 0
      /\ \A k \in F : broker.id[k] = id => k = m
  BY <1>1 DEF Numbered, Flying
<1>4. /\ x \in [Incoming -> States]
      /\ \A k \in Incoming : k # m => x[k] = broker.out[k]
      /\ x[m] = IF broker.out[m] = from THEN to ELSE broker.out[m]
  <2>1. \A k \in Incoming : x[k] = IF (k \in F /\ broker.id[k] = id) /\ broker.out[k] = from
                                   THEN to ELSE broker.out[k]
    BY <1>2
  <2>2. x \in [Incoming -> States]
    BY <1>1 DEF BrokerType, States
  <2> HIDE DEF x, F
  <2>. QED
    BY <1>3, <2>1, <2>2 DEF F
<1>5. b = [recv |-> broker.recv, out |-> x, id |-> broker.id]
  BY <1>1 DEF Mark, BrokerType
<1> HIDE DEF x, F
<1>6. b.recv = broker.recv /\ b.out = x /\ b.id = broker.id
  BY <1>5
<1>7. BrokerType(b)
  BY <1>1, <1>4, <1>5, <1>6 DEF BrokerType
<1>8. m \in Incoming
  BY <1>3 DEF F
<1>9. /\ \A k \in Flying(b) : k \in F
      /\ \A k \in F : k # m => k \in Flying(b)
      /\ to = "rec" => m \in Flying(b)
  BY <1>3, <1>4, <1>6, <1>8 DEF Flying, F
<1>10. Numbered(b)
  <2>1. IsFiniteSet(F) /\ Cardinality(F) <= MAX_INCOMING_QOS2_MESSAGES
    BY <1>1 DEF Numbered, F
  <2>2. Flying(b) \in SUBSET F
    BY <1>9
  <2>3. IsFiniteSet(Flying(b)) /\ Cardinality(Flying(b)) <= Cardinality(F)
    BY <2>1, <2>2, FS_Subset
  <2>4. Cardinality(Flying(b)) \in Nat /\ Cardinality(F) \in Nat /\ MAX_INCOMING_QOS2_MESSAGES \in Nat
    BY <2>1, <2>3, FS_CardinalityType, MqttSessionAssumption
  <2>5. Cardinality(Flying(b)) <= MAX_INCOMING_QOS2_MESSAGES
    BY <2>1, <2>3, <2>4
  <2>6. /\ \A k \in Flying(b) : b.id[k] # 0
        /\ \A k, l \in Flying(b) : b.id[k] = b.id[l] => k = l
    BY <1>1, <1>6, <1>9 DEF Numbered, F
  <2>. QED
    BY <2>3, <2>5, <2>6 DEF Numbered
<1>11. UnderWay(cl, n, b, delivered)
  <2>1. \A r : r.id # id /\ ReplyFor(r, cl, broker, delivered) => ReplyFor(r, cl, b, delivered)
    BY <1>6, <1>9 DEF ReplyFor, F
  <2>2. \A r : r.id # id /\ PublishOf(r, broker, delivered) => PublishOf(r, b, delivered)
    BY <1>4, <1>6 DEF PublishOf
  <2>3. ASSUME NEW r, r.id # id, ReleaseOf(r, broker)
        PROVE  ReleaseOf(r, b)
    <3>1. PICK k \in F : broker.id[k] = r.id /\ broker.out[k] = "rec"
      BY <2>3 DEF ReleaseOf, F
    <3>2. k # m /\ k \in Incoming
      BY <1>3, <2>3, <3>1
    <3>. QED
      BY <1>4, <1>6, <1>9, <3>1, <3>2 DEF ReleaseOf
  <2>. QED
    BY <1>1, <2>1, <2>2, <2>3 DEF UnderWay, Requests
<1>12. Table(cl, b, delivered)
  <2>1. \A i, j \in Slots : cl.incoming[i] = cl.incoming[j] /\ cl.incoming[i] # 0 => i = j
    BY <1>1 DEF Table
  <2>2. ASSUME NEW i \in Slots, cl.incoming[i] # 0
        PROVE  \E k \in Flying(b) : Qos[k] = 2 /\ b.id[k] = cl.incoming[i] /\ delivered[k] >= 1
    <3>1. PICK k \in F : Qos[k] = 2 /\ broker.id[k] = cl.incoming[i] /\ delivered[k] >= 1
      BY <1>1, <2>2 DEF Table, F
    <3>2. k \in Flying(b)
      <4>1. CASE to = "rec"
        BY <1>9, <4>1
      <4>2. CASE to = "done"
        BY <1>9, <3>1, <4>2
      <4>. QED
        BY <4>1, <4>2
    <3>. QED
      BY <1>6, <3>1, <3>2
  <2>3. ASSUME ~option, NEW k \in Flying(b), Qos[k] = 2, b.out[k] = "sent", delivered[k] >= 1
        PROVE  \E i \in Slots : cl.incoming[i] = b.id[k]
    <3>1. k \in F /\ k \in Incoming
      BY <1>3, <1>9
    <3>2. broker.out[k] = "sent"
      BY <1>4, <1>6, <2>3, <3>1
    <3>. QED
      BY <1>1, <1>6, <2>3, <3>1, <3>2 DEF Table, F
  <2>4. ~(~option /\ cl.cleansession)
    BY <1>1, <1>3, <1>8 DEF Table, F
  <2>. QED
    BY <2>1, <2>2, <2>3, <2>4 DEF Table
<1>13. Deliveries(b, delivered)
  <2>1. b.out[m] # "unsent" /\ delivered[m] >= 1
    BY <1>3, <1>4, <1>6 DEF F
  <2>. QED
    BY <1>1, <1>4, <1>6, <2>1 DEF Deliveries
<1>14. from = "sent" /\ to = "rec" => b.out[m] = "rec" /\ b.id[m] = id /\ m \in Flying(b)
  BY <1>3, <1>4, <1>6, <1>9 DEF F
<1>15. Good(cl, op, n, b, delivered, published, arrived)
  BY <1>7, <1>10, <1>11, <1>12, <1>13, BrokerChanges
<1>. QED
  BY <1>14, <1>15

(* Only the publish messages the broker receives are remembered there. *)
LEMMA SameMessages ==
    ASSUME NEW n, NEW arr, Good(cl, op, n, broker, delivered, published, arr),
           NEW r, NEW b, b = [broker EXCEPT !.recv = r]
    PROVE  Good(cl, op, n, b, delivered, published, arr)
<1>1. b = [recv |-> r, out |-> broker.out, id |-> broker.id]
  BY DEF Good, Types, BrokerType
<1>2. b.out = broker.out /\ b.id = broker.id /\ BrokerType(b)
  BY <1>1 DEF Good, Types, BrokerType
<1>3. Flying(b) = Flying(broker)
  BY <1>2 DEF Flying
<1>4. Numbered(b) /\ UnderWay(cl, n, b, delivered)
  BY <1>2, <1>3 DEF Good, Inward, Numbered, UnderWay, ReplyFor, PublishOf, ReleaseOf
<1>5. Table(cl, b, delivered) /\ Deliveries(b, delivered)
  BY <1>2, <1>3 DEF Good, Inward, Table, Deliveries
<1>. QED
  BY <1>2, <1>4, <1>5, BrokerChanges

(* The answer to a packet, added to what is left. *)
LEMMA AnswersFields ==
    ASSUME IInv, net.toBroker # <<>>, NEW ps, Answers(ps)
    PROVE  net' = [Taken EXCEPT !.toClient = @ \o ps] /\ (ps = <<>> => net' = Taken)
<1> DEFINE x == Tail(net.toBroker)
           y == net.toClient \o ps
           t == net.toClient
<1>1. net = [up |-> net.up, toBroker |-> net.toBroker, toClient |-> net.toClient]
  BY DEF IInv, Good, Types, NetType
<1>2. net' = [net EXCEPT !.toBroker = x, !.toClient = y]
  BY DEF Answers
<1>3. Taken = [up |-> net.up, toBroker |-> x, toClient |-> t]
  BY TakenFields
<1>4. t \in Seq(Packet)
  BY DEF IInv, Good, Types, NetType
<1>5. ps = <<>> => y = t
  BY <1>4
<1> HIDE DEF x, y
<1>6. net' = [up |-> net.up, toBroker |-> x, toClient |-> y]
  BY <1>1, <1>2
<1>7. [Taken EXCEPT !.toClient = y] = [up |-> net.up, toBroker |-> x, toClient |-> y]
  BY <1>3
<1>8. Taken.toClient \o ps = y
  BY <1>3 DEF y
<1>. QED
  BY <1>3, <1>5, <1>6, <1>7, <1>8

(* The broker receives a packet that is neither CONNECT nor DISCONNECT. *)
LEMMA ReceivesKeeps == IInv /\ BrokerReceives => IInv'
<1> SUFFICES ASSUME IInv, BrokerReceives
             PROVE  IInv'
  OBVIOUS
<1> DEFINE p == Received
<1>1. /\ net.toBroker # <<>> /\ UNCHANGED <<cl, op, option, published, acked, delivered>>
      /\ arrived' = IF p.type = "publish" THEN arrived \cup {p.about} ELSE arrived
      /\ p.type \in {"publish", "pubrel", "puback", "pubrec", "pubcomp", "subscribe",
                     "unsubscribe", "pingreq"}
  BY DEF BrokerReceives, Received
<1>2. /\ Good(cl, op, Taken, broker, delivered, published, arrived)
      /\ No(Taken.toBroker, {"connect"})
      /\ p.type \in Replies =>
            /\ ReplyFor(p, cl, broker, delivered)
            /\ \A i \in DOMAIN Taken.toBroker :
                  Taken.toBroker[i].type \in Replies => Taken.toBroker[i].id # p.id
            /\ \A i \in DOMAIN Taken.toClient :
                  Taken.toClient[i].type \in Requests => Taken.toClient[i].id # p.id
      /\ p.type \in Requests /\ Live(cl, op) =>
            /\ op.wait \in Acks
            /\ No(Taken.toBroker, Requests) /\ No(Taken.toClient, Replies)
            /\ p.type = "publish" => p.about = op.about
            /\ p.type = "pubrel" => op.about \in arrived
  BY <1>1, TakenIsGood
<1>3. p \in Packet /\ p.id \in Nat
  BY <1>1, TakenFields DEF Packet
<1>4. SUFFICES Good(cl, op, net', broker', delivered, published, arrived')
  <2>1. Good(cl', op', net', broker', delivered', published', arrived')
    BY <1>1, <1>4
  <2>2. acked' \subseteq arrived' /\ published' \subseteq Outgoing
    BY <1>1 DEF IInv
  <2>. QED
    BY <1>1, <2>1, <2>2, Primed
<1> HIDE DEF p
<1>5. \A ps : Answers(ps) => net' = [Taken EXCEPT !.toClient = @ \o ps] /\ (ps = <<>> => net' = Taken)
  BY <1>1, AnswersFields
<1>6. \A a : a \in {"puback", "pubrec", "pubcomp", "pubrel", "unsuback"} =>
          /\ Pkt(a, p.id, NULL) \in Packet /\ Pkt(a, p.id, NULL).type = a
          /\ Pkt(a, p.id, NULL).id = p.id
  BY <1>3 DEF Pkt, Packet, Requests, Replies, Others, Abouts
<1>7. CASE p.type = "publish" \/ p.type = "pubrel"
  <2> DEFINE r1 == broker.recv \cup {p.id}
             r2 == broker.recv \ {p.id}
             b1 == [broker EXCEPT !.recv = r1]
             b2 == [broker EXCEPT !.recv = r2]
  <2>1. PICK a \in {"puback", "pubrec", "pubcomp"} :
            broker' \in {broker, b1, b2} /\ Answers(<<Pkt(a, p.id, NULL)>>)
    <3>1. CASE p.type = "publish" /\ Qos[p.about] = 1
      BY <3>1 DEF BrokerReceives, p, Received
    <3>2. CASE p.type = "publish" /\ Qos[p.about] # 1
      <4>1. broker' = b1 /\ Answers(<<Pkt("pubrec", p.id, NULL)>>)
        BY <3>2 DEF BrokerReceives, p, Received
      <4> HIDE DEF b1, b2
      <4>. QED
        BY ONLY <4>1
    <3>3. CASE p.type = "pubrel"
      <4>1. broker' = b2 /\ Answers(<<Pkt("pubcomp", p.id, NULL)>>)
        BY <3>3 DEF BrokerReceives, p, Received
      <4> HIDE DEF b1, b2
      <4>. QED
        BY ONLY <4>1
    <3>. QED
      BY <1>7, <3>1, <3>2, <3>3
  <2> DEFINE q == Pkt(a, p.id, NULL)
  <2>2. q \in Packet /\ q.type = a
    BY <1>6
  <2>3. q.type \in Replies /\ q.type \notin Requests
    BY <2>2 DEF Replies, Requests
  <2>4. net' = [Taken EXCEPT !.toClient = @ \o <<q>>]
    BY <1>5, <2>1
  <2>5. arrived \subseteq arrived' /\ (p.type = "publish" => p.about \in arrived')
    BY <1>1
  <2>6. Good(cl, op, Taken, broker, delivered, published, arrived')
    BY <1>2, <2>5, MoreArrived
  <2>7. Good(cl, op, Taken, broker', delivered, published, arrived')
    <3>1. /\ Good(cl, op, Taken, b1, delivered, published, arrived')
          /\ Good(cl, op, Taken, b2, delivered, published, arrived')
      <4> HIDE DEF r1, r2
      <4>. QED
        BY <2>6, SameMessages
    <3> HIDE DEF b1, b2
    <3>. QED
      BY <2>1, <2>6, <3>1
  <2>8. Live(cl, op) => /\ op.wait \in Acks /\ op.about \in arrived'
                        /\ No(Taken.toBroker, Requests) /\ No(Taken.toClient, Replies)
    BY <1>2, <1>7, <2>5 DEF Requests
  <2> HIDE DEF q
  <2>. QED
    BY <1>2, <2>2, <2>3, <2>4, <2>7, <2>8, BrokerSends DEF Requests
<1>8. CASE p.type = "puback" \/ p.type = "pubcomp"
  <2>1. /\ broker' = Mark(p.id, IF p.type = "puback" THEN "sent" ELSE "rec", "done")
        /\ Answers(<<>>)
    <3>1. CASE p.type = "puback"
      BY <3>1 DEF BrokerReceives, Mark, p, Received
    <3>2. CASE p.type = "pubcomp"
      BY <3>2 DEF BrokerReceives, Mark, p, Received
    <3>. QED
      BY <1>8, <3>1, <3>2
  <2>2. net' = Taken /\ arrived' = arrived
    BY <1>1, <1>5, <1>8, <2>1
  <2>3. PICK m \in Flying(broker) : /\ broker.id[m] = p.id /\ delivered[m] >= 1
                                    /\ p.type = "puback" => Qos[m] = 1
                                    /\ p.type = "pubcomp" => \A i \in Slots : cl.incoming[i] # p.id
    BY <1>2, <1>8 DEF ReplyFor, Replies
  <2>4. \A i \in Slots : cl.incoming[i] # p.id
    <3>1. CASE p.type = "pubcomp"
      BY <2>3, <3>1
    <3>2. CASE p.type = "puback"
      <4>1. Qos[m] # 2 /\ p.id # 0
        BY <2>3, <3>2 DEF IInv, Good, Inward, Numbered
      <4>2. \A k \in Flying(broker) : broker.id[k] = p.id => k = m
        BY <2>3 DEF IInv, Good, Inward, Numbered
      <4>. QED
        BY <4>1, <4>2 DEF IInv, Good, Inward, Table
    <3>. QED
      BY <1>8, <3>1, <3>2
  <2>5. /\ \A i \in DOMAIN Taken.toBroker :
              Taken.toBroker[i].type \in Replies => Taken.toBroker[i].id # p.id
        /\ \A i \in DOMAIN Taken.toClient :
              Taken.toClient[i].type \in Requests => Taken.toClient[i].id # p.id
    BY <1>2, <1>8 DEF Replies
  <2>6. Good(cl, op, Taken, broker', delivered, published, arrived)
    <3> DEFINE from == IF p.type = "puback" THEN "sent" ELSE "rec"
    <3>1. from \in States
      BY DEF States
    <3> HIDE DEF from
    <3>. QED
      BY <1>2, <2>1, <2>3, <2>4, <2>5, <3>1, MarkIsGood DEF from
  <2>. QED
    BY <2>2, <2>6
<1>9. CASE p.type = "pubrec"
  <2> DEFINE q == Pkt("pubrel", p.id, NULL)
  <2>1. broker' = Mark(p.id, "sent", "rec") /\ Answers(<<q>>)
    BY <1>9 DEF BrokerReceives, Mark, p, Received
  <2>2. net' = [Taken EXCEPT !.toClient = @ \o <<q>>] /\ arrived' = arrived
    BY <1>1, <1>5, <1>9, <2>1
  <2>3. PICK m \in Flying(broker) : broker.id[m] = p.id /\ delivered[m] >= 1
    BY <1>2, <1>9 DEF ReplyFor, Replies
  <2>4. /\ \A i \in DOMAIN Taken.toBroker :
              Taken.toBroker[i].type \in Replies => Taken.toBroker[i].id # p.id
        /\ \A i \in DOMAIN Taken.toClient :
              Taken.toClient[i].type \in Requests => Taken.toClient[i].id # p.id
    BY <1>2, <1>9 DEF Replies
  <2>5. /\ Good(cl, op, Taken, broker', delivered, published, arrived)
        /\ broker'.out[m] = "rec" /\ broker'.id[m] = p.id /\ m \in Flying(broker')
    <3>1. "sent" \in States
      BY DEF States
    <3>. QED
      BY <1>2, <2>1, <2>3, <2>4, <3>1, MarkIsGood
  <2>6. q \in Packet /\ q.type = "pubrel" /\ q.id = p.id
    BY <1>6
  <2> HIDE DEF q
  <2>7. q.type \notin Replies
    BY <2>6 DEF Replies
  <2>8. ReleaseOf(q, broker')
    BY <2>5, <2>6 DEF ReleaseOf
  <2>. QED
    BY <1>2, <2>2, <2>4, <2>5, <2>6, <2>7, <2>8, BrokerSends
<1>10. CASE p.type \in {"subscribe", "unsubscribe", "pingreq"}
  <2>1. \E q \in Packet : /\ broker' = broker /\ Answers(<<q>>)
                          /\ q.type \in {"suback", "unsuback", "pingresp"}
    <3>1. CASE p.type = "subscribe"
      <4>1. PICK a \in {"granted", "refused"} : broker' = broker /\ Answers(<<Pkt("suback", p.id, a)>>)
        BY <3>1 DEF BrokerReceives, p, Received
      <4>2. Pkt("suback", p.id, a) \in Packet /\ Pkt("suback", p.id, a).type = "suback"
        BY <1>3 DEF Pkt, Packet, Others, Abouts
      <4>. QED
        BY <4>1, <4>2
    <3>2. CASE p.type = "unsubscribe"
      <4>1. broker' = broker /\ Answers(<<Pkt("unsuback", p.id, NULL)>>)
        BY <3>2 DEF BrokerReceives, p, Received
      <4>. QED
        BY <1>6, <4>1
    <3>3. CASE p.type = "pingreq"
      <4>1. broker' = broker /\ Answers(<<Pkt("pingresp", 0, NULL)>>)
        BY <3>3 DEF BrokerReceives, p, Received
      <4>2. Pkt("pingresp", 0, NULL) \in Packet /\ Pkt("pingresp", 0, NULL).type = "pingresp"
        BY DEF Pkt, Packet, Others, Abouts
      <4>. QED
        BY <4>1, <4>2
    <3>. QED
      BY <1>10, <3>1, <3>2, <3>3
  <2>2. PICK q \in Packet : /\ broker' = broker /\ Answers(<<q>>)
                            /\ q.type \in {"suback", "unsuback", "pingresp"}
    BY <2>1
  <2>3. net' = [Taken EXCEPT !.toClient = @ \o <<q>>] /\ arrived' = arrived
    BY <1>1, <1>5, <1>10, <2>2
  <2>4. q.type \notin Replies \cup Requests
    BY <2>2 DEF Replies, Requests
  <2>. QED
    BY <1>2, <2>2, <2>3, <2>4, BrokerSends DEF Requests
<1>. QED
  BY <1>1, <1>7, <1>8, <1>9, <1>10

(* There is an identifier left for another message. *)
LEMMA IdLeft ==
    ASSUME Numbered(broker), Cardinality(InFlight) < MAX_INCOMING_QOS2_MESSAGES
    PROVE  Ids \ {broker.id[x] : x \in InFlight} # {}
<1>1. SUFFICES ASSUME \A i \in Ids : \E x \in InFlight : broker.id[x] = i
               PROVE  FALSE
  OBVIOUS
<1> DEFINE f == [i \in Ids |-> CHOOSE x \in InFlight : broker.id[x] = i]
<1>2. \A i \in Ids : f[i] \in InFlight /\ broker.id[f[i]] = i
  BY <1>1
<1>3. f \in [Ids -> InFlight]
  BY <1>2
<1>4. IsFiniteSet(InFlight)
  BY DEF Numbered, Flying, InFlight
<1>5. IsFiniteSet(Ids) /\ Cardinality(Ids) = MAX_PACKET_ID
  BY MqttSessionAssumption, FS_Interval DEF Ids
<1>6. Cardinality(InFlight) < Cardinality(Ids)
  <2>1. Cardinality(InFlight) \in Nat
    BY <1>4, FS_CardinalityType
  <2>. QED
    BY <1>5, <2>1, MqttSessionAssumption
<1> HIDE DEF f
<1>7. \E x, y \in Ids : x # y /\ f[x] = f[y]
  BY <1>3, <1>4, <1>5, <1>6, FS_PigeonHole
<1>. QED
  BY <1>2, <1>7

LEMMA BrokerPublishKeeps == ASSUME IInv, NEW m \in Incoming, BrokerPublish(m)
                            PROVE  IInv'
<1> DEFINE id == Min(Ids \ {broker.id[x] : x \in InFlight})
           F == Flying(broker)
           b == [broker EXCEPT !.out[m] = "sent", !.id[m] = id]
           a == Pkt("publish", id, m)
<1>1. /\ cl.isconnected /\ broker.out[m] = "unsent"
      /\ Cardinality(InFlight) < MAX_INCOMING_QOS2_MESSAGES
      /\ broker' = b
      /\ net' = [net EXCEPT !.toClient = Append(@, a)]
      /\ UNCHANGED <<cl, op, option, published, acked, arrived, delivered>>
  BY DEF BrokerPublish
<1>2. /\ BrokerType(broker) /\ Numbered(broker) /\ UnderWay(cl, net, broker, delivered)
      /\ Table(cl, broker, delivered) /\ Deliveries(broker, delivered)
  BY DEF IInv, Good, Types, Inward
<1>3. InFlight = F
  BY DEF InFlight, Flying
<1>4. id \in Nat /\ id # 0 /\ \A x \in F : broker.id[x] # id
  <2>1. Ids \ {broker.id[x] : x \in InFlight} \in SUBSET Nat /\ 0 \notin Ids
    BY MqttSessionAssumption DEF Ids
  <2>2. Ids \ {broker.id[x] : x \in InFlight} # {}
    BY <1>1, <1>2, IdLeft
  <2>3. id \in Ids \ {broker.id[x] : x \in InFlight}
    BY <2>1, <2>2, MinIsElement
  <2> HIDE DEF id, F
  <2>. QED
    BY <1>3, <2>1, <2>3
<1> HIDE DEF id
<1>5. b = [recv |-> broker.recv, out |-> [broker.out EXCEPT ![m] = "sent"],
           id |-> [broker.id EXCEPT ![m] = id]]
  <2> DEFINE x == [broker.out EXCEPT ![m] = "sent"]
             y == [broker.id EXCEPT ![m] = id]
  <2>1. broker = [recv |-> broker.recv, out |-> broker.out, id |-> broker.id]
    BY <1>2 DEF BrokerType
  <2>2. b = [[broker EXCEPT !.out = x] EXCEPT !.id = [@ EXCEPT ![m] = id]]
    OBVIOUS
  <2>3. [broker EXCEPT !.out = x] = [recv |-> broker.recv, out |-> x, id |-> broker.id]
    <3> HIDE DEF x
    <3>. QED
      BY ONLY <2>1
  <2>4. [[recv |-> broker.recv, out |-> x, id |-> broker.id] EXCEPT !.id = [@ EXCEPT ![m] = id]]
        = [recv |-> broker.recv, out |-> x, id |-> y]
    <3> HIDE DEF x
    <3>. QED
      BY ONLY DEF y
  <2> HIDE DEF b, x, y
  <2>. QED
    BY ONLY <2>2, <2>3, <2>4 DEF x, y
<1> HIDE DEF b
<1>6. /\ BrokerType(b) /\ b.out[m] = "sent" /\ b.id[m] = id
      /\ \A k \in Incoming : k # m => b.out[k] = broker.out[k] /\ b.id[k] = broker.id[k]
  BY <1>2, <1>4, <1>5 DEF BrokerType, States
<1>7. Flying(b) = F \cup {m} /\ m \notin F
  BY <1>1, <1>6 DEF Flying
<1>8. \A k \in F : k \in Incoming /\ k # m /\ b.out[k] = broker.out[k] /\ b.id[k] = broker.id[k]
  BY <1>6, <1>7 DEF Flying
<1>9. delivered[m] = 0
  BY <1>1, <1>2 DEF Deliveries
<1>10. Numbered(b)
  <2>1. IsFiniteSet(F)
    BY <1>2 DEF Numbered
  <2>2. IsFiniteSet(Flying(b)) /\ Cardinality(Flying(b)) = Cardinality(F) + 1
    BY <1>7, <2>1, FS_AddElement
  <2>3. Cardinality(F) \in Nat /\ MAX_INCOMING_QOS2_MESSAGES \in Nat
    BY <2>1, FS_CardinalityType, MqttSessionAssumption
  <2> HIDE DEF F
  <2>4. Cardinality(Flying(b)) <= MAX_INCOMING_QOS2_MESSAGES
    BY <1>1, <1>3, <2>2, <2>3
  <2>5. /\ \A k \in F : b.id[k] # 0 /\ b.id[k] # id
        /\ \A k, l \in F : b.id[k] = b.id[l] => k = l
    BY <1>2, <1>4, <1>8 DEF Numbered, F
  <2>. QED
    BY <1>4, <1>6, <1>7, <2>2, <2>4, <2>5 DEF Numbered
<1>11. UnderWay(cl, net, b, delivered)
  <2>1. \A r : ReplyFor(r, cl, broker, delivered) => ReplyFor(r, cl, b, delivered)
    BY <1>7, <1>8 DEF ReplyFor
  <2>2. \A r : PublishOf(r, broker, delivered) => PublishOf(r, b, delivered)
    BY <1>1, <1>6 DEF PublishOf
  <2>3. \A r : ReleaseOf(r, broker) => ReleaseOf(r, b)
    BY <1>7, <1>8 DEF ReleaseOf
  <2>. QED
    BY <1>2, <2>1, <2>2, <2>3 DEF UnderWay
<1>12. Table(cl, b, delivered)
  <2>1. cl.cleansession = option
    BY <1>1 DEF IInv, Good, Kept, Live
  <2>2. \A i, j \in Slots : cl.incoming[i] = cl.incoming[j] /\ cl.incoming[i] # 0 => i = j
    BY <1>2 DEF Table
  <2>3. \A i \in Slots : cl.incoming[i] # 0 =>
          \E k \in Flying(b) : Qos[k] = 2 /\ b.id[k] = cl.incoming[i] /\ delivered[k] >= 1
    BY <1>2, <1>7, <1>8 DEF Table
  <2>4. ASSUME ~option, NEW k \in Flying(b), Qos[k] = 2, b.out[k] = "sent", delivered[k] >= 1
        PROVE  \E i \in Slots : cl.incoming[i] = b.id[k]
    <3>1. k # m
      BY <1>9, <2>4
    <3>2. k \in F
      BY <1>7, <3>1
    <3>. QED
      BY <1>2, <1>8, <2>4, <3>2 DEF Table
  <2>. QED
    BY <2>1, <2>2, <2>3, <2>4 DEF Table
<1>13. Deliveries(b, delivered)
  BY <1>2, <1>6 DEF Deliveries
<1>14. Good(cl, op, net, b, delivered, published, arrived)
  BY <1>10, <1>11, <1>12, <1>13, <1>6, BrokerChanges DEF IInv
<1>15. a \in Packet /\ a.type = "publish" /\ a.id = id /\ a.about = m
  BY <1>4 DEF Pkt, Packet, Requests, Abouts
<1> HIDE DEF a, F
<1>16. a.type \notin Replies
  BY <1>15 DEF Replies
<1>17. PublishOf(a, b, delivered)
  BY <1>6, <1>9, <1>15 DEF PublishOf
<1>18. /\ \A i \in DOMAIN net.toBroker : net.toBroker[i].type \in Replies => net.toBroker[i].id # a.id
       /\ \A i \in DOMAIN net.toClient : net.toClient[i].type \in Requests => net.toClient[i].id # a.id
  <2>1. \A r : ReplyFor(r, cl, broker, delivered) \/ PublishOf(r, broker, delivered)
               \/ ReleaseOf(r, broker) => r.id # a.id
    BY <1>4, <1>15 DEF ReplyFor, PublishOf, ReleaseOf, Flying, F
  <2>. QED
    BY <1>2, <2>1 DEF UnderWay, Requests
<1>19. No(net.toBroker, {"connect"})
  <2>1. Fresh(cl, op, net)
    BY DEF IInv, Good, Inward
  <2>. QED
    BY <1>1, <2>1 DEF Fresh, No
<1>20. net' = [net EXCEPT !.toClient = @ \o <<a>>]
  <2>1. net.toClient \in Seq(Packet)
    BY DEF IInv, Good, Types, NetType
  <2>2. Append(net.toClient, a) = net.toClient \o <<a>>
    BY <1>15, <2>1
  <2>. QED
    BY <1>1, <2>2
<1>21. Good(cl, op, net', b, delivered, published, arrived)
  BY <1>1, <1>14, <1>15, <1>16, <1>17, <1>18, <1>19, <1>20, BrokerSends
<1>22. Good(cl', op', net', broker', delivered', published', arrived')
  BY <1>1, <1>21
<1>. QED
  BY <1>1, <1>22, Primed DEF IInv

(* What the broker repeats in a session that goes on: one packet for each  *)
(* message under way.                                                      *)
LEMMA AgainFacts ==
    ASSUME BrokerType(broker), Numbered(broker)
    PROVE  /\ Again \in Seq(Packet)
           /\ \A i \in DOMAIN Again :
                 \/ /\ Again[i].type = "publish" /\ Again[i].about \in Incoming
                    /\ broker.out[Again[i].about] = "sent" /\ broker.id[Again[i].about] = Again[i].id
                 \/ Again[i].type = "pubrel" /\ ReleaseOf(Again[i], broker)
           /\ \A i, j \in DOMAIN Again : Again[i].id = Again[j].id => i = j
<1> DEFINE F == InFlight
           N == Cardinality(F)
           order == CHOOSE s \in [1..N -> F] : \A m \in F : \E i \in DOMAIN s : s[i] = m
           pk(m) == IF broker.out[m] = "sent" THEN Pkt("publish", broker.id[m], m)
                    ELSE Pkt("pubrel", broker.id[m], NULL)
<1>1. IsFiniteSet(F) /\ F = Flying(broker)
  BY DEF Numbered, Flying, InFlight
<1>2. N \in Nat /\ ExistsBijection(1..N, F)
  BY <1>1, FS_CardinalityType
<1>3. \E s \in [1..N -> F] : \A m \in F : \E i \in DOMAIN s : s[i] = m
  BY <1>2 DEF ExistsBijection, Bijection, Injection, Surjection
<1>4. order \in [1..N -> F] /\ \A m \in F : \E i \in DOMAIN order : order[i] = m
  BY <1>3
<1> HIDE DEF order
<1>5. \A i, j \in 1..N : order[i] = order[j] => i = j
  <2>1. order \in Surjection(1..N, F)
    BY <1>4 DEF Surjection
  <2>2. IsFiniteSet(1..N) /\ Cardinality(1..N) = N
    BY <1>2, FS_Interval
  <2>3. order \in Injection(1..N, F)
    BY <2>1, <2>2, FS_SurjSameCardinalityImpliesInj
  <2>. QED
    BY ONLY <2>3 DEF Injection, IsInjective
<1>6. Again = [i \in 1..N |-> pk(order[i])]
  <2>1. Again = [i \in DOMAIN order |-> pk(order[i])]
    BY DEF Again, order
  <2>. QED
    BY <1>4, <2>1
<1>7. \A m \in F : m \in Incoming /\ broker.out[m] \in {"sent", "rec"} /\ broker.id[m] \in Nat
  BY <1>1 DEF Flying, BrokerType
<1>8. ASSUME NEW m \in F
      PROVE  /\ pk(m) \in Packet /\ pk(m).id = broker.id[m]
             /\ \/ pk(m).type = "publish" /\ pk(m).about = m /\ broker.out[m] = "sent"
                \/ pk(m).type = "pubrel" /\ broker.out[m] = "rec"
  <2>1. m \in Incoming /\ broker.id[m] \in Nat /\ broker.out[m] \in {"sent", "rec"}
    BY <1>7
  <2>2. CASE broker.out[m] = "sent"
    BY <2>1, <2>2 DEF Pkt, Packet, Requests, Abouts
  <2>3. CASE broker.out[m] # "sent"
    BY <2>1, <2>3 DEF Pkt, Packet, Requests, Abouts
  <2>. QED
    BY <2>2, <2>3
<1> HIDE DEF pk, F, N
<1>9. DOMAIN Again = 1..N /\ \A i \in 1..N : Again[i] = pk(order[i]) /\ order[i] \in F
  BY <1>4, <1>6
<1>10. Again \in Seq(Packet)
  BY <1>2, <1>6, <1>8, <1>9
<1>11. ASSUME NEW i \in 1..N
       PROVE  \/ /\ Again[i].type = "publish" /\ Again[i].about \in Incoming
                 /\ broker.out[Again[i].about] = "sent" /\ broker.id[Again[i].about] = Again[i].id
              \/ Again[i].type = "pubrel" /\ ReleaseOf(Again[i], broker)
  <2>1. Again[i] = pk(order[i]) /\ order[i] \in F
    BY <1>9
  <2>. QED
    BY <1>1, <1>7, <1>8, <2>1 DEF ReleaseOf
<1>12. \A i, j \in 1..N : Again[i].id = Again[j].id => i = j
  <2>1. \A i \in 1..N : Again[i].id = broker.id[order[i]] /\ order[i] \in Flying(broker)
    BY <1>1, <1>8, <1>9
  <2>. QED
    BY <1>5, <2>1 DEF Numbered
<1>. QED
  BY <1>9, <1>10, <1>11, <1>12

LEMMA PrependFacts ==
    ASSUME NEW s \in Seq(Packet), NEW p \in Packet, NEW u, u = <<p>> \o s
    PROVE  /\ u \in Seq(Packet)
           /\ \A i \in DOMAIN u : u[i] = p \/ (i - 1 \in DOMAIN s /\ u[i] = s[i - 1])
           /\ \A i, j \in DOMAIN u : i - 1 = j - 1 => i = j
OBVIOUS

(* A connection is taken up again: the client has received nothing on it   *)
(* and sent no reply.                                                      *)
LEMMA SessionGoesOn ==
    ASSUME IInv, net.toBroker # <<>>, Received.type = "connect", ~option,
           Answers(<<Pkt("connack", 0, "accepted")>> \o Again)
    PROVE  Good(cl, op, net', broker, delivered, published, arrived)
<1> DEFINE a == Pkt("connack", 0, "accepted")
           ps == <<a>> \o Again
           s == Taken.toBroker
           k == [Taken EXCEPT !.toClient = ps]
<1>1. Received = net.toBroker[1] /\ 1 \in DOMAIN net.toBroker
  BY TakenFields
<1>2. net.toClient = <<>> /\ ~cl.isconnected /\ No(net.toBroker, Replies)
  <2>1. Fresh(cl, op, net)
    BY DEF IInv, Good, Inward
  <2>. QED
    BY <1>1, <2>1 DEF Fresh
<1>3. /\ Good(cl, op, Taken, broker, delivered, published, arrived)
      /\ No(s, {"connect"})
  BY TakenIsGood
<1>4. No(s, Replies)
  <2>1. \A i \in DOMAIN Tail(net.toBroker) :
            i + 1 \in DOMAIN net.toBroker /\ Tail(net.toBroker)[i] = net.toBroker[i + 1]
    BY TailFacts DEF IInv, Good, Types, NetType
  <2>2. s = Tail(net.toBroker)
    BY TakenFields
  <2>. QED
    BY <1>2, <2>1, <2>2 DEF No
<1>5. /\ Again \in Seq(Packet)
      /\ \A i \in DOMAIN Again :
            \/ /\ Again[i].type = "publish" /\ Again[i].about \in Incoming
               /\ broker.out[Again[i].about] = "sent" /\ broker.id[Again[i].about] = Again[i].id
            \/ Again[i].type = "pubrel" /\ ReleaseOf(Again[i], broker)
      /\ \A i, j \in DOMAIN Again : Again[i].id = Again[j].id => i = j
  BY AgainFacts DEF IInv, Good, Types, Inward
<1>6. a \in Packet /\ a.type = "connack" /\ a.type \notin Requests \cup Replies
  BY DEF Pkt, Packet, Others, Abouts, Requests, Replies
<1> HIDE DEF a
<1>7. /\ ps \in Seq(Packet)
      /\ \A i \in DOMAIN ps : ps[i] = a \/ (i - 1 \in DOMAIN Again /\ ps[i] = Again[i - 1])
      /\ \A i, j \in DOMAIN ps : i - 1 = j - 1 => i = j
  BY <1>5, <1>6, PrependFacts
<1>8. net' = k
  <2>1. net' = [Taken EXCEPT !.toClient = @ \o ps]
    BY AnswersFields DEF a
  <2>2. Taken.toClient \o ps = ps
    BY <1>2, <1>7, TakenFields
  <2>. QED
    BY <2>1, <2>2
<1> HIDE DEF ps, s
<1>9. k = [up |-> net.up, toBroker |-> s, toClient |-> ps] /\ s \in Seq(Packet)
  BY TakenFields DEF NetType, s
<1> HIDE DEF k
<1>10. k.toBroker = s /\ k.toClient = ps
  BY <1>9
<1>11. Types(cl, op, k, broker, delivered)
  BY <1>3, <1>7, <1>9, <1>10 DEF Good, Types, NetType
<1>12. No(ps, Replies)
  BY <1>5, <1>6, <1>7 DEF No, Replies
<1>13. Outward(cl, op, k, arrived)
  <2>1. Outward(cl, op, Taken, arrived)
    BY <1>3 DEF Good
  <2>. QED
    BY <1>10, <1>12, <2>1 DEF Outward, No, s
<1>14. Once(s, ps)
  <2>1. ASSUME NEW i \in DOMAIN ps, NEW j \in DOMAIN ps,
               ps[i].type \in Requests, ps[j].type \in Requests, ps[i].id = ps[j].id
        PROVE  i = j
    <3>1. /\ i - 1 \in DOMAIN Again /\ ps[i] = Again[i - 1]
          /\ j - 1 \in DOMAIN Again /\ ps[j] = Again[j - 1]
      BY <1>6, <1>7, <2>1
    <3>2. i - 1 = j - 1
      BY <1>5, <2>1, <3>1
    <3>. QED
      BY <1>7, <3>2
  <2>. QED
    BY <1>4, <2>1 DEF Once, No
<1>15. UnderWay(cl, k, broker, delivered)
  <2>1. ASSUME NEW i \in DOMAIN ps
        PROVE  /\ ps[i].type = "publish" => PublishOf(ps[i], broker, delivered)
               /\ ps[i].type = "pubrel" => ReleaseOf(ps[i], broker)
    <3>1. CASE ps[i] = a
      BY <1>6, <3>1
    <3>2. CASE i - 1 \in DOMAIN Again /\ ps[i] = Again[i - 1]
      BY <1>5, <3>2 DEF PublishOf
    <3>. QED
      BY <1>7, <3>1, <3>2
  <2>. QED
    BY <1>4, <1>10, <2>1 DEF UnderWay, No
<1>16. Fresh(cl, op, k)
  <2>1. op.wait = "connack" => ~cl.isconnected
    BY <1>2
  <2>. QED
    BY <1>3, <1>10, <2>1 DEF Fresh, No
<1>17. Good(cl, op, k, broker, delivered, published, arrived)
  BY <1>3, <1>10, <1>11, <1>13, <1>14, <1>15, <1>16 DEF Good, Inward
<1>. QED
  BY <1>8, <1>17

(* A clean session: the broker drops what is under way. *)
LEMMA SessionStarts ==
    ASSUME IInv, net.toBroker # <<>>, Received.type = "connect", option,
           NEW b, b = [broker EXCEPT !.recv = {},
                          !.out = [m \in Incoming |-> IF @[m] = "done" THEN "done"
                                                     ELSE IF m \in InFlight THEN "dropped" ELSE @[m]]]
    PROVE  Good(cl, op, Taken, b, delivered, published, arrived)
<1> DEFINE x == [m \in Incoming |-> IF broker.out[m] = "done" THEN "done"
                                    ELSE IF m \in InFlight THEN "dropped" ELSE broker.out[m]]
<1>1. Received = net.toBroker[1] /\ 1 \in DOMAIN net.toBroker
  BY TakenFields
<1>2. net.toClient = <<>> /\ ~cl.isconnected /\ No(net.toBroker, Replies)
  <2>1. Fresh(cl, op, net)
    BY DEF IInv, Good, Inward
  <2>. QED
    BY <1>1, <2>1 DEF Fresh
<1>3. /\ Good(cl, op, Taken, broker, delivered, published, arrived)
      /\ No(Taken.toBroker, {"connect"})
  BY TakenIsGood
<1>4. No(Taken.toBroker, Replies)
  <2>1. \A i \in DOMAIN Tail(net.toBroker) :
            i + 1 \in DOMAIN net.toBroker /\ Tail(net.toBroker)[i] = net.toBroker[i + 1]
    BY TailFacts DEF IInv, Good, Types, NetType
  <2>2. Taken.toBroker = Tail(net.toBroker)
    BY TakenFields
  <2>. QED
    BY <1>2, <2>1, <2>2 DEF No
<1>5. Taken.toClient = <<>>
  BY <1>2, TakenFields
<1>6. b = [recv |-> {}, out |-> x, id |-> broker.id]
  BY <1>3 DEF Good, Types, BrokerType
<1>7. /\ x \in [Incoming -> States]
      /\ \A m \in Incoming : x[m] \notin {"sent", "rec"}
      /\ \A m \in Incoming : x[m] \in {"unsent", "done"} => x[m] = broker.out[m]
  BY <1>3 DEF Good, Types, BrokerType, States, InFlight
<1> HIDE DEF x
<1>8. b.out = x /\ b.id = broker.id
  BY ONLY <1>6
<1>9. BrokerType(b)
  BY <1>3, <1>6, <1>7, <1>8 DEF Good, Types, BrokerType
<1>10. Flying(b) = {}
  BY ONLY <1>7, <1>8 DEF Flying
<1>11. Numbered(b)
  <2>1. IsFiniteSet({}) /\ Cardinality({}) = 0
    BY ONLY FS_EmptySet
  <2>2. 0 <= MAX_INCOMING_QOS2_MESSAGES
    BY ONLY MqttSessionAssumption
  <2>. QED
    BY ONLY <1>10, <2>1, <2>2 DEF Numbered
<1>12. UnderWay(cl, Taken, b, delivered)
  <2>1. DOMAIN Taken.toClient = {}
    BY ONLY <1>5
  <2>. QED
    BY ONLY <1>4, <2>1 DEF UnderWay, No
<1>13. \A i \in Slots : cl.incoming[i] = 0
  BY <1>2 DEF IInv, Good, Inward, Fresh
<1>14. Table(cl, b, delivered)
  BY <1>13 DEF Table
<1>15. Deliveries(b, delivered)
  BY <1>3, <1>7, <1>8 DEF Good, Inward, Deliveries
<1>. QED
  BY <1>3, <1>9, <1>11, <1>12, <1>14, <1>15, BrokerChanges

LEMMA BrokerConnectKeeps == IInv /\ BrokerConnect => IInv'
<1> SUFFICES ASSUME IInv, BrokerConnect
             PROVE  IInv'
  OBVIOUS
<1>1. /\ net.toBroker # <<>> /\ Received.type = "connect"
      /\ UNCHANGED <<cl, op, option, published, acked, arrived, delivered>>
  BY DEF BrokerConnect, Received
<1>2. \A r \in {"accepted", "refused"} :
          /\ Pkt("connack", 0, r) \in Packet /\ Pkt("connack", 0, r).type = "connack"
          /\ Pkt("connack", 0, r).type \notin Requests \cup Replies
  BY DEF Pkt, Packet, Others, Abouts, Requests, Replies
<1>3. ASSUME NEW b, Good(cl, op, Taken, b, delivered, published, arrived),
             NEW r \in {"accepted", "refused"}, Answers(<<Pkt("connack", 0, r)>>)
      PROVE  Good(cl, op, net', b, delivered, published, arrived)
  <2> DEFINE a == Pkt("connack", 0, r)
  <2>1. net' = [Taken EXCEPT !.toClient = @ \o <<a>>]
    BY <1>1, <1>3, AnswersFields
  <2>2. No(Taken.toBroker, {"connect"})
    BY <1>1, TakenIsGood
  <2>3. a \in Packet /\ a.type = "connack" /\ a.type \notin Requests \cup Replies
    BY <1>2
  <2> HIDE DEF a
  <2>. QED
    BY <1>3, <2>1, <2>2, <2>3, BrokerSends DEF Requests
<1>4. Good(cl, op, net', broker', delivered, published, arrived)
  <2> DEFINE dropped == [broker EXCEPT !.recv = {},
                          !.out = [m \in Incoming |-> IF @[m] = "done" THEN "done"
                                                     ELSE IF m \in InFlight THEN "dropped" ELSE @[m]]]
  <2>1. CASE option /\ broker' = dropped /\ Answers(<<Pkt("connack", 0, "accepted")>>)
    <3>1. Good(cl, op, Taken, dropped, delivered, published, arrived)
      BY <1>1, <2>1, SessionStarts
    <3> HIDE DEF dropped
    <3>2. Good(cl, op, net', dropped, delivered, published, arrived)
      BY <1>3, <2>1, <3>1
    <3>. QED
      BY <2>1, <3>2
  <2>2. CASE ~option /\ Answers(<<Pkt("connack", 0, "accepted")>> \o Again) /\ broker' = broker
    BY <1>1, <2>2, SessionGoesOn
  <2>3. CASE Answers(<<Pkt("connack", 0, "refused")>>) /\ broker' = broker
    <3>1. Good(cl, op, Taken, broker, delivered, published, arrived)
      BY <1>1, TakenIsGood
    <3>2. Good(cl, op, net', broker, delivered, published, arrived)
      BY <1>3, <2>3, <3>1
    <3>. QED
      BY <2>3, <3>2
  <2>. QED
    BY <2>1, <2>2, <2>3 DEF BrokerConnect
<1>5. Good(cl', op', net', broker', delivered', published', arrived')
  BY <1>1, <1>4
<1>. QED
  BY <1>1, <1>5, Primed DEF IInv

-----------------------------------------------------------------------------
LEMMA InitIInv == Init => IInv
<1> SUFFICES ASSUME Init
             PROVE  IInv
  OBVIOUS
<1>1. /\ ClientType(cl) /\ cl.isconnected = FALSE /\ cl.inflightMsgid = 0 /\ cl.pubrel = FALSE
      /\ \A i \in Slots : cl.incoming[i] = 0
  <2>1. cl = [isconnected |-> FALSE, cleansession |-> TRUE, ping_outstanding |-> FALSE,
              next |-> 0, pubbuf |-> NULL, inflightMsgid |-> 0, inflightQoS |-> 0,
              pubrel |-> FALSE, incoming |-> [i \in Slots |-> 0],
              handlers |-> [i \in HandlerSlots |-> NULL]]
    BY DEF Init, closeSession, cleanSession
  <2>. QED
    BY <2>1 DEF ClientType
<1>2. op = Idle /\ published = {} /\ acked = {} /\ arrived = {}
  BY DEF Init
<1>3. net.toBroker = <<>> /\ net.toClient = <<>> /\ NetType(net)
  BY DEF Init, Broken, NetType
<1>4. DOMAIN net.toBroker = {} /\ DOMAIN net.toClient = {}
  BY <1>3
<1>5. /\ BrokerType(broker) /\ Flying(broker) = {} /\ \A m \in Incoming : broker.out[m] = "unsent"
      /\ delivered \in [Incoming -> Nat] /\ \A m \in Incoming : delivered[m] = 0
  BY DEF Init, BrokerType, States, Flying
<1>6. Types(cl, op, net, broker, delivered)
  BY <1>1, <1>2, <1>3, <1>5, IdleFacts DEF Types
<1>7. Outward(cl, op, net, arrived)
  BY <1>2, <1>4, IdleFacts DEF Outward, No
<1>8. Kept(cl, op, published, arrived)
  BY <1>1, <1>2, IdleFacts DEF Kept, Live
<1>9. Numbered(broker)
  <2>1. IsFiniteSet({}) /\ Cardinality({}) = 0
    BY ONLY FS_EmptySet
  <2>2. 0 <= MAX_INCOMING_QOS2_MESSAGES
    BY ONLY MqttSessionAssumption
  <2>. QED
    BY ONLY <1>5, <2>1, <2>2 DEF Numbered
<1>10. Once(net.toBroker, net.toClient) /\ UnderWay(cl, net, broker, delivered)
  BY <1>4 DEF Once, UnderWay
<1>11. Table(cl, broker, delivered) /\ Deliveries(broker, delivered)
  BY <1>1, <1>5 DEF Table, Deliveries
<1>12. Fresh(cl, op, net)
  BY <1>1, <1>2, <1>4, IdleFacts, NullWaits DEF Fresh, No
<1>. QED
  BY <1>2, <1>6, <1>7, <1>8, <1>9, <1>10, <1>11, <1>12 DEF IInv, Good, Inward

LEMMA NextIInv == IInv /\ [Next]_vars => IInv'
<1> SUFFICES ASSUME IInv, [Next]_vars
             PROVE  IInv'
  OBVIOUS
<1>1. CASE connect \/ publish_QOS0 \/ subscribe_unconnected \/ disconnect
  BY <1>1, ConnectKeeps, Publish0Keeps, UnconnectedKeeps, DisconnectKeeps
<1>2. CASE \E m \in Outgoing : publish(m)
  BY <1>2, PublishKeeps
<1>3. CASE \E f \in Filters : subscribe(f) \/ unsubscribe(f) \/ set_handler(f)
  BY <1>3, SubscribeKeeps, SetHandlerKeeps
<1>4. CASE cycle \/ cycle_nothing \/ waitfor_times_out
  BY <1>4, CycleKeeps, CycleNothingKeeps, TimeoutKeeps
<1>5. CASE BrokerConnect \/ BrokerReceives \/ Breaks
  BY <1>5, BrokerConnectKeeps, ReceivesKeeps, BreaksKeeps
<1>6. CASE \E m \in Incoming : BrokerPublish(m)
  BY <1>6, BrokerPublishKeeps
<1>7. CASE UNCHANGED vars
  <2>1. Good(cl', op', net', broker', delivered', published', arrived')
    BY <1>7 DEF vars, IInv
  <2>. QED
    BY <1>7, <2>1, Primed DEF vars, IInv
<1>. QED
  BY <1>1, <1>2, <1>3, <1>4, <1>5, <1>6, <1>7 DEF Next

(* The invariant holds in every state of every behaviour of the client,    *)
(* the broker and the connections between them.                            *)
THEOREM Invariance == Spec => []IInv
BY InitIInv, NextIInv, PTL DEF Spec

(* cycle hands a QoS 2 message to the application once, although broker    *)
(* and client repeat what a broken connection left unanswered, and the     *)
(* broker is told of the receipt (PUBACK, PUBREC) only after that.         *)
THEOREM DeliveredOnce == Spec => []ExactlyOnce
<1>1. IInv => ExactlyOnce
  BY DEF IInv, Good, Inward, Deliveries, ExactlyOnce
<1>. QED
  BY <1>1, Invariance, PTL

(* publish and the second half of connect succeed only for a message the   *)
(* broker has; and what the broker does not have is still in pubbuf when   *)
(* sessions are kept.                                                      *)
THEOREM PublishedAtLeastOnce == Spec => []AtLeastOnce
<1>1. IInv => AtLeastOnce
  BY DEF IInv, Good, Kept, AtLeastOnce
<1>. QED
  BY <1>1, Invariance, PTL
=============================================================================
