----------------------------- MODULE MqttPacket -----------------------------
(***************************************************************************)
(* The packet layer of paho.mqtt.embedded-c (MQTTPacket/src): what the     *)
(* serialisers write, what the deserialisers of the other side read back,  *)
(* and MQTTPacket_readnb, which collects a packet from a transport that    *)
(* hands out bytes in any portions.  A behaviour serialises one message,   *)
(* carries it over such a transport and deserialises it.                   *)
(*                                                                         *)
(* A byte is an integer, a buffer a sequence of bytes, a pointer into it   *)
(* the number of bytes before it.                                          *)
(***************************************************************************)
EXTENDS Integers, Sequences, FiniteSetsExt

CONSTANTS
    NULL,        \* a null pointer
    Messages,    \* the messages to serialise, records with a field type
    Noise,       \* byte sequences that no serialiser wrote
    Slack,       \* how much the send buffer differs from what is needed
    ReadSize     \* size of the receiver's buffer

VARIABLES
    msg,      \* the message to be sent
    buflen,   \* size of the sender's buffer
    sent,     \* what the serialiser wrote: bytes, or NULL for BUFFER_TOO_SHORT
    wire,     \* bytes the transport still holds
    trp,      \* MQTTTransport: state, len, rem_len, multiplier
    buf,      \* the receiver's buffer
    rc,       \* 0: call again, -1: error, otherwise the packet type
    got       \* the deserialised message, NULL before

vars == <<msg, buflen, sent, wire, trp, buf, rc, got>>

CONNECT == 1
CONNACK == 2
PUBLISH == 3
PUBACK == 4
PUBREC == 5
PUBREL == 6
PUBCOMP == 7
SUBSCRIBE == 8
SUBACK == 9
UNSUBSCRIBE == 10
UNSUBACK == 11
PINGREQ == 12
DISCONNECT == 14

Acks == {PUBACK, PUBREC, PUBREL, PUBCOMP}

(* Fields of the header byte and of the flag bytes. *)
Bits(n, shift, width) == (n \div 2^shift) % 2^width
Header(type, dup, qos, retain) == 16 * type + 8 * dup + 2 * qos + retain

-----------------------------------------------------------------------------
(* Remaining length. *)

MQTTPacket_encode[n \in Nat] ==
    IF n < 128 THEN <<n>> ELSE <<128 + (n % 128)>> \o MQTTPacket_encode[n \div 128]

MAX_NO_OF_REMAINING_LENGTH_BYTES == 4

(* The length field at p: how many bytes it has, and its value.            *)
MQTTPacket_decode(b, p) ==
    LET ends == {i \in 1..MAX_NO_OF_REMAINING_LENGTH_BYTES : p + i <= Len(b) /\ b[p + i] < 128}
        last == IF ends = {} THEN MAX_NO_OF_REMAINING_LENGTH_BYTES ELSE Min(ends)
    IN  [len   |-> IF ends = {} THEN last + 1 ELSE last,
         value |-> MapThenSumSet(LAMBDA i : (b[p + i] % 128) * 128^(i - 1), 1..last)]

MQTTPacket_len_without_header(rem_len) ==
    rem_len + (IF rem_len < 128 THEN 1 ELSE IF rem_len < 16384 THEN 2
               ELSE IF rem_len < 2097151 THEN 3 ELSE 4)

MQTTPacket_len(rem_len) ==
    LET n == rem_len + 1
    IN  n + (IF n < 128 THEN 1 ELSE IF n < 16384 THEN 2 ELSE IF n < 2097151 THEN 3 ELSE 4)

-----------------------------------------------------------------------------
(* Integers and strings.  An MQTTString is a C string, a length-delimited  *)
(* one, or neither.                                                        *)

CString(s) == [cstring |-> s, data |-> NULL]
LenString(s) == [cstring |-> NULL, data |-> s]
MQTTString_initializer == [cstring |-> NULL, data |-> NULL]

Present(s) == s.cstring # NULL \/ s.data # NULL
Chars(s) == IF s.cstring # NULL THEN s.cstring ELSE IF s.data # NULL THEN s.data ELSE <<>>

MQTTstrlen(s) == Len(Chars(s))
writeInt_swapped(n) == <<n % 256, (n \div 256) % 256>>
writeInt(n) == <<(n \div 256) % 256, n % 256>>
readInt(b, p) == 256 * b[p + 1] + b[p + 2]

writeMQTTString(s) ==
    LET chars == IF s.data # NULL /\ s.data # <<>> THEN s.data ELSE Chars(s)
    IN  writeInt(Len(chars)) \o chars

(* readMQTTLenString: the string at p, and the pointer behind it; refused  *)
(* when it does not end by enddata.                                        *)
readMQTTLenString(b, p, enddata) ==
    IF enddata - p > 1 /\ p + 2 + readInt(b, p) <= enddata
    THEN [ok |-> TRUE, str |-> SubSeq(b, p + 3, p + 2 + readInt(b, p)),
          next |-> p + 2 + readInt(b, p)]
    ELSE [ok |-> FALSE, str |-> <<>>, next |-> p]

-----------------------------------------------------------------------------
(* Serialisers: the remaining length each computes in advance, and the     *)
(* bytes it writes behind the length field.                                *)

ConcatAll(f, n) ==
    LET upTo[i \in 0..n] == IF i = 0 THEN <<>> ELSE upTo[i - 1] \o f[i]
    IN  upTo[n]

MQTTSerialize_connectLength(o) ==
    LET field(s) == IF Present(s) THEN MQTTstrlen(s) + 2 ELSE 0
    IN  (IF o.MQTTVersion = 3 THEN 12 ELSE 10) + MQTTstrlen(o.clientID) + 2
        + (IF o.willFlag = 1 THEN MQTTstrlen(o.topicName) + 2 + MQTTstrlen(o.message) + 2 ELSE 0)
        + field(o.username) + field(o.password)

ConnectFlags(o) ==
    2 * o.cleansession
    + (IF o.willFlag = 1 THEN 4 + 8 * o.willQoS + 32 * o.willRetain ELSE 0)
    + (IF Present(o.password) THEN 64 ELSE 0) + (IF Present(o.username) THEN 128 ELSE 0)

MQTTSerialize_connect(o) ==
    LET optional(s) == IF Present(s) THEN writeMQTTString(s) ELSE <<>>
    IN  (IF o.MQTTVersion = 4 THEN writeMQTTString(CString(<<77, 81, 84, 84>>)) \o <<4>>
         ELSE writeMQTTString(CString(<<77, 81, 73, 115, 100, 112>>)) \o <<3>>)
        \o <<ConnectFlags(o)>> \o writeInt(o.keepAliveInterval) \o writeMQTTString(o.clientID)
        \o (IF o.willFlag = 1 THEN writeMQTTString(o.topicName) \o writeMQTTString(o.message)
            ELSE <<>>)
        \o optional(o.username) \o optional(o.password)

MQTTSerialize_publishLength(m) ==
    2 + MQTTstrlen(m.topicName) + Len(m.payload) + (IF m.qos > 0 THEN 2 ELSE 0)

MQTTSerialize_publish(m) ==
    writeMQTTString(m.topicName) \o (IF m.qos > 0 THEN writeInt(m.packetid) ELSE <<>>) \o m.payload

MQTTSerialize_subscribeLength(m) ==
    2 + MapThenSumSet(LAMBDA i : 2 + MQTTstrlen(m.topicFilters[i]) + 1, DOMAIN m.topicFilters)

MQTTSerialize_subscribe(m) ==
    writeInt(m.packetid)
    \o ConcatAll([i \in DOMAIN m.topicFilters |->
                    writeMQTTString(m.topicFilters[i]) \o <<m.requestedQoSs[i]>>],
                 Len(m.topicFilters))

MQTTSerialize_unsubscribeLength(m) ==
    2 + MapThenSumSet(LAMBDA i : 2 + MQTTstrlen(m.topicFilters[i]), DOMAIN m.topicFilters)

MQTTSerialize_unsubscribe(m) ==
    writeInt(m.packetid)
    \o ConcatAll([i \in DOMAIN m.topicFilters |-> writeMQTTString(m.topicFilters[i])],
                 Len(m.topicFilters))

MQTTSerialize_ack(m) == writeInt(m.packetid)
MQTTSerialize_connack(m) == <<m.sessionPresent, m.connack_rc>>
MQTTSerialize_suback(m) == writeInt(m.packetid) \o m.grantedQoSs
MQTTSerialize_unsuback(m) == writeInt(m.packetid)
MQTTSerialize_zero(m) == <<>>

(* Per packet type: header byte, remaining length, body, and the size of   *)
(* the buffer that is asked for before anything is written.                *)
HeaderOf(m) ==
    CASE m.type = PUBLISH -> Header(PUBLISH, m.dup, m.qos, m.retained)
      [] m.type \in {SUBSCRIBE, UNSUBSCRIBE} -> Header(m.type, m.dup, 1, 0)
      [] m.type \in Acks -> Header(m.type, m.dup, IF m.type = PUBREL THEN 1 ELSE 0, 0)
      [] OTHER -> Header(m.type, 0, 0, 0)

RemainingLength(m) ==
    CASE m.type = CONNECT -> MQTTSerialize_connectLength(m)
      [] m.type = PUBLISH -> MQTTSerialize_publishLength(m)
      [] m.type = SUBSCRIBE -> MQTTSerialize_subscribeLength(m)
      [] m.type = UNSUBSCRIBE -> MQTTSerialize_unsubscribeLength(m)
      [] m.type = SUBACK -> 2 + Len(m.grantedQoSs)
      [] m.type \in Acks \cup {CONNACK, UNSUBACK} -> 2
      [] OTHER -> 0

Body(m) ==
    CASE m.type = CONNECT -> MQTTSerialize_connect(m)
      [] m.type = PUBLISH -> MQTTSerialize_publish(m)
      [] m.type = SUBSCRIBE -> MQTTSerialize_subscribe(m)
      [] m.type = UNSUBSCRIBE -> MQTTSerialize_unsubscribe(m)
      [] m.type = CONNACK -> MQTTSerialize_connack(m)
      [] m.type = SUBACK -> MQTTSerialize_suback(m)
      [] m.type = UNSUBACK -> MQTTSerialize_unsuback(m)
      [] m.type \in Acks -> MQTTSerialize_ack(m)
      [] OTHER -> MQTTSerialize_zero(m)

Bytes(m) == <<HeaderOf(m)>> \o MQTTPacket_encode[RemainingLength(m)] \o Body(m)

Needed(m) ==
    CASE m.type \in {CONNECT, PUBLISH, SUBSCRIBE, UNSUBSCRIBE} -> MQTTPacket_len(RemainingLength(m))
      [] m.type \in Acks -> 4
      [] m.type = SUBACK -> 2 + Len(m.grantedQoSs)
      [] OTHER -> 2

Serialize ==
    /\ sent = NULL /\ msg # NULL /\ rc = 0
    /\ \/ /\ Needed(msg) <= buflen
          /\ sent' = Bytes(msg) /\ wire' = Bytes(msg)
          /\ rc' = rc
       \/ /\ Needed(msg) > buflen
          /\ rc' = -2
          /\ UNCHANGED <<sent, wire>>
    /\ UNCHANGED <<msg, buflen, trp, buf, got>>

-----------------------------------------------------------------------------
(* MQTTPacket_readnb.  getfn returns any portion of what the transport has *)
(* and was asked for; nothing (0) leaves everything as it is.              *)

getfn(n) ==
    /\ n >= 1 /\ n <= Len(wire)
    /\ wire' = SubSeq(wire, n + 1, Len(wire))

readnb_header ==
    /\ trp.state = 0 /\ rc = 0
    /\ getfn(1)
    /\ buf' = <<Head(wire)>>
    /\ trp' = [state |-> 1, len |-> 0, rem_len |-> 0, multiplier |-> 1]
    /\ UNCHANGED <<msg, buflen, sent, rc, got>>

FitsReadBuffer(rem_len, field) == rem_len + 1 + Len(field) <= ReadSize

(* One byte of the length; after the last one the length is put back into  *)
(* the buffer and compared with its size.                                  *)
MQTTPacket_decodenb ==
    /\ trp.state = 1 /\ rc = 0
    /\ trp.len < MAX_NO_OF_REMAINING_LENGTH_BYTES
    /\ getfn(1)
    /\ LET c       == Head(wire)
           rem_len == trp.rem_len + (c % 128) * trp.multiplier
           field   == MQTTPacket_encode[rem_len]
       IN  \/ /\ c >= 128
              /\ trp' = [trp EXCEPT !.len = @ + 1, !.rem_len = rem_len, !.multiplier = @ * 128]
              /\ UNCHANGED <<buf, rc>>
           \/ /\ c < 128
              /\ buf' = buf \o field
              /\ \/ /\ FitsReadBuffer(rem_len, field)
                    /\ trp' = [trp EXCEPT !.state = 2, !.len = 1 + Len(field), !.rem_len = rem_len]
                    /\ rc' = rc
                 \/ /\ ~FitsReadBuffer(rem_len, field)
                    /\ trp' = [trp EXCEPT !.state = 0, !.len = 1 + Len(field), !.rem_len = rem_len]
                    /\ rc' = -1
    /\ UNCHANGED <<msg, buflen, sent, got>>

readnb_bad_length ==
    /\ trp.state = 1 /\ rc = 0
    /\ trp.len >= MAX_NO_OF_REMAINING_LENGTH_BYTES
    /\ trp' = [trp EXCEPT !.state = 0]
    /\ rc' = -1
    /\ UNCHANGED <<msg, buflen, sent, wire, buf, got>>

readnb_body_always_whole ==
    /\ trp.state = 2 /\ rc = 0 /\ trp.rem_len > 0
    /\ \E n \in 1..trp.rem_len :
         /\ getfn(n)
         /\ buf' = buf \o SubSeq(wire, 1, n)
         /\ trp' = [trp EXCEPT !.rem_len = 0, !.len = @ + n]
    /\ UNCHANGED <<msg, buflen, sent, rc, got>>

readnb_body ==
    /\ trp.state = 2 /\ rc = 0 /\ trp.rem_len > 0
    /\ \E n \in 1..trp.rem_len :
         /\ getfn(n)
         /\ buf' = buf \o SubSeq(wire, 1, n)
         /\ trp' = [trp EXCEPT !.rem_len = @ - n, !.len = @ + n]
    /\ UNCHANGED <<msg, buflen, sent, rc, got>>

readnb_complete ==
    /\ trp.state = 2 /\ rc = 0 /\ trp.rem_len = 0
    /\ rc' = buf[1] \div 16
    /\ trp' = [trp EXCEPT !.state = 0]
    /\ UNCHANGED <<msg, buflen, sent, wire, buf, got>>

(* getfn fails (-1) wherever it is called: what was collected is given up. *)
readnb_error ==
    /\ rc = 0 /\ sent # NULL
    /\ \/ trp.state = 0
       \/ trp.state = 1 /\ trp.len < MAX_NO_OF_REMAINING_LENGTH_BYTES
       \/ trp.state = 2 /\ trp.rem_len > 0
    /\ trp' = [trp EXCEPT !.state = 0]
    /\ rc' = -1
    /\ UNCHANGED <<msg, buflen, sent, wire, buf, got>>

(* MQTTPacket_read, the blocking variant, on a transport that has all of b *)
(* (MQTTPacket_decode's verdict is ignored, the value it read so far used).*)
MQTTPacket_read(b) ==
    LET len == MQTTPacket_decode(b, 1)
        put == MQTTPacket_encode[len.value]
    IN  IF 1 + Len(put) + len.value > ReadSize \/ Len(b) < 1 + len.len + len.value
        THEN [rc |-> -1, buf |-> <<b[1]>> \o put]
        ELSE [rc |-> b[1] \div 16,
              buf |-> <<b[1]>> \o put \o SubSeq(b, 2 + len.len, 1 + len.len + len.value)]

-----------------------------------------------------------------------------
(* Deserialisers, NULL when they refuse the packet. *)

Failed == [rc |-> 0]
After(b) == 1 + MQTTPacket_decode(b, 1).len
End(b) == After(b) + MQTTPacket_decode(b, 1).value

Prefix(s, t) == SubSeq(s, 1, IF Len(s) < Len(t) THEN Len(s) ELSE Len(t))

(* memcmp over min(4 or 6, the length of the protocol name) bytes.         *)
MQTTPacket_checkVersion(protocol, version) ==
    \/ version = 3 /\ Prefix(protocol, <<77, 81, 73, 115, 100, 112>>)
                      = Prefix(<<77, 81, 73, 115, 100, 112>>, protocol)
    \/ version = 4 /\ Prefix(protocol, <<77, 81, 84, 84>>) = Prefix(<<77, 81, 84, 84>>, protocol)

MQTTDeserialize_connect(b) ==
    LET enddata  == Len(b)
        protocol == readMQTTLenString(b, After(b), enddata)
        v        == protocol.next               \* the version byte
        flags    == b[v + 2]
        flag(i)  == Bits(flags, i, 1) = 1
        client   == readMQTTLenString(b, v + 4, enddata)
        skip(p)  == [ok |-> TRUE, str |-> <<>>, next |-> p]
        topic    == IF flag(2) THEN readMQTTLenString(b, client.next, enddata) ELSE skip(client.next)
        message  == IF flag(2) THEN readMQTTLenString(b, topic.next, enddata) ELSE skip(topic.next)
        user     == IF flag(7) THEN readMQTTLenString(b, message.next, enddata) ELSE skip(message.next)
        pass     == IF flag(6) THEN readMQTTLenString(b, user.next, enddata) ELSE skip(user.next)
        field(set, s) == IF set THEN LenString(s.str) ELSE MQTTString_initializer
    IN  IF /\ protocol.ok
           /\ MQTTPacket_checkVersion(protocol.str, b[v + 1])
           /\ client.ok /\ topic.ok /\ message.ok
           /\ flag(7) => enddata - message.next >= 3 /\ user.ok
           /\ flag(7) /\ flag(6) => enddata - user.next >= 3 /\ pass.ok
           /\ flag(6) => flag(7)
        THEN [type |-> CONNECT, MQTTVersion |-> b[v + 1], clientID |-> LenString(client.str),
              keepAliveInterval |-> readInt(b, v + 2), cleansession |-> Bits(flags, 1, 1),
              willFlag |-> Bits(flags, 2, 1), willQoS |-> IF flag(2) THEN Bits(flags, 3, 2) ELSE 0,
              willRetain |-> IF flag(2) THEN Bits(flags, 5, 1) ELSE 0,
              topicName |-> field(flag(2), topic), message |-> field(flag(2), message),
              username |-> field(flag(7), user), password |-> field(flag(6), pass)]
        ELSE Failed

MQTTDeserialize_connack(b) ==
    IF End(b) - After(b) < 2 THEN Failed
    ELSE [type |-> CONNACK, sessionPresent |-> Bits(b[After(b) + 1], 0, 1),
          connack_rc |-> b[After(b) + 2]]

MQTTDeserialize_publish(b) ==
    LET topic == readMQTTLenString(b, After(b), End(b))
        qos   == Bits(b[1], 1, 2)
        at    == IF qos > 0 THEN topic.next + 2 ELSE topic.next
    IN  IF ~topic.ok THEN Failed
        ELSE [type |-> PUBLISH, dup |-> Bits(b[1], 3, 1), qos |-> qos,
              retained |-> Bits(b[1], 0, 1),
              packetid |-> IF qos > 0 THEN readInt(b, topic.next) ELSE 0,
              topicName |-> LenString(topic.str), payload |-> SubSeq(b, at + 1, End(b))]

MQTTDeserialize_ack(b) ==
    IF End(b) - After(b) < 2 THEN Failed
    ELSE [type |-> b[1] \div 16, dup |-> Bits(b[1], 3, 1), packetid |-> readInt(b, After(b))]

(* The topics from p on, each followed by gap bytes (the requested QoS).   *)
Topics(b, p, gap) ==
    LET from[q \in p..End(b)] ==
          LET s == readMQTTLenString(b, q, End(b))
          IN  IF q >= End(b) THEN <<>>
              ELSE IF ~s.ok \/ s.next + gap > End(b) THEN <<NULL>>
              ELSE <<s>> \o from[s.next + gap]
    IN  from[p]

MQTTDeserialize_subscribe(b) ==
    LET topics == Topics(b, After(b) + 2, 1)
    IN  IF \E i \in DOMAIN topics : topics[i] = NULL THEN Failed
        ELSE [type |-> SUBSCRIBE, dup |-> Bits(b[1], 3, 1), packetid |-> readInt(b, After(b)),
              topicFilters |-> [i \in DOMAIN topics |-> LenString(topics[i].str)],
              requestedQoSs |-> [i \in DOMAIN topics |-> b[topics[i].next + 1]]]

MQTTDeserialize_unsubscribe(b) ==
    LET topics == Topics(b, After(b) + 2, 0)
    IN  IF \E i \in DOMAIN topics : topics[i] = NULL THEN Failed
        ELSE [type |-> UNSUBSCRIBE, dup |-> Bits(b[1], 3, 1), packetid |-> readInt(b, After(b)),
              topicFilters |-> [i \in DOMAIN topics |-> LenString(topics[i].str)]]

MQTTDeserialize_suback(b) ==
    IF End(b) - After(b) < 2 THEN Failed
    ELSE [type |-> SUBACK, packetid |-> readInt(b, After(b)),
          grantedQoSs |-> SubSeq(b, After(b) + 3, End(b))]

MQTTDeserialize_unsuback(b) ==
    [type |-> UNSUBACK, packetid |-> MQTTDeserialize_ack(b).packetid]

Deserialize ==
    /\ rc > 0 /\ got = NULL /\ msg # NULL
    /\ got' = CASE rc = CONNECT -> MQTTDeserialize_connect(buf)
                [] rc = CONNACK -> MQTTDeserialize_connack(buf)
                [] rc = PUBLISH -> MQTTDeserialize_publish(buf)
                [] rc \in Acks -> MQTTDeserialize_ack(buf)
                [] rc = SUBSCRIBE -> MQTTDeserialize_subscribe(buf)
                [] rc = UNSUBSCRIBE -> MQTTDeserialize_unsubscribe(buf)
                [] rc = SUBACK -> MQTTDeserialize_suback(buf)
                [] rc = UNSUBACK -> MQTTDeserialize_unsuback(buf)
                [] OTHER -> [type |-> rc]
    /\ UNCHANGED <<msg, buflen, sent, wire, trp, buf, rc>>

Init ==
    /\ \/ /\ msg \in Messages /\ wire = <<>> /\ sent = NULL
          /\ buflen \in {Len(Bytes(msg)) + d : d \in Slack}
       \/ /\ msg = NULL /\ wire \in Noise /\ sent = wire /\ buflen = 0
    /\ trp = [state |-> 0, len |-> 0, rem_len |-> 0, multiplier |-> 1]
    /\ buf = <<>> /\ rc = 0 /\ got = NULL

Next ==
    \/ Serialize
    \/ readnb_header \/ MQTTPacket_decodenb \/ readnb_bad_length \/ readnb_body \/ readnb_complete
    \/ readnb_error
    \/ Deserialize

Spec == Init /\ [][Next]_vars

-----------------------------------------------------------------------------
(* Types, and MQTTTransport inside its ranges. *)
TypeOK ==
    /\ trp.state \in 0..2 /\ trp.len \in 0..ReadSize + 5
    /\ trp.rem_len \in Nat /\ trp.multiplier \in {128^i : i \in 0..4}
    /\ rc \in -2..15
    /\ \A i \in DOMAIN buf : buf[i] \in 0..255

ServerSide == {CONNACK, SUBACK, UNSUBACK}

(* A serialiser that does not return BUFFER_TOO_SHORT has not written      *)
(* beyond the buffer it was given, although it compares the buffer with a  *)
(* length computed by other code (MQTTPacket_len, the ...Length functions) *)
(* than the one that writes.  The server's acknowledgements ask for two    *)
(* bytes less than they write.                                             *)
FitsBuffer ==
    sent # NULL /\ msg # NULL =>
        Len(sent) <= buflen + (IF msg.type \in ServerSide THEN 2 ELSE 0)

(* readnb never stores beyond the receive buffer once it has accepted the  *)
(* length, whatever the bytes are and however they are split.              *)
FitsReceiver == trp.state = 2 => trp.len = Len(buf) /\ trp.len + trp.rem_len <= ReadSize

(* Neither side of the connection writes beyond its buffer: the sender's   *)
(* check (MQTTPacket_len) and the receiver's (readnb) count the same bytes *)
(* as the code that stores them.                                           *)
InsideBuffers == FitsBuffer /\ FitsReceiver

(* However the transport splits the bytes, the non-blocking reader ends    *)
(* with the packet that the blocking one reads, and rejects a length field *)
(* of more than four bytes (which the blocking one does not notice).       *)
SplitMakesNoDifference ==
    rc > 0 => LET whole == MQTTPacket_read(sent)
              IN  rc = whole.rc /\ buf = whole.buf

(* The strings of a message as the receiver has them.                      *)
AsRead(s) == IF Present(s) THEN LenString(Chars(s)) ELSE MQTTString_initializer

AsReceived(m) ==
    CASE m.type = CONNECT ->
           [m EXCEPT !.clientID = LenString(Chars(@)), !.username = AsRead(@), !.password = AsRead(@),
                     !.topicName = IF m.willFlag = 1 THEN LenString(Chars(@)) ELSE MQTTString_initializer,
                     !.message = IF m.willFlag = 1 THEN LenString(Chars(@)) ELSE MQTTString_initializer,
                     !.willQoS = IF m.willFlag = 1 THEN @ ELSE 0,
                     !.willRetain = IF m.willFlag = 1 THEN @ ELSE 0]
      [] m.type = PUBLISH ->
           [m EXCEPT !.topicName = LenString(Chars(@)), !.packetid = IF m.qos > 0 THEN @ ELSE 0]
      [] m.type \in {SUBSCRIBE, UNSUBSCRIBE} ->
           [m EXCEPT !.topicFilters = [i \in DOMAIN @ |-> LenString(Chars(@[i]))]]
      [] OTHER -> m

(* What the receiver of a CONNECT refuses: a password without a user name, *)
(* an empty password, and an empty user name with nothing behind it.       *)
Refused(m) ==
    /\ m.type = CONNECT
    /\ \/ Present(m.password) /\ (~Present(m.username) \/ Chars(m.password) = <<>>)
       \/ Present(m.username) /\ ~Present(m.password) /\ Chars(m.username) = <<>>

(* A message that was serialised, carried in any portions and deserialised *)
(* by the other side is the message that was sent: no field lost, shifted  *)
(* or changed; a CONNECT is refused exactly when its credentials are       *)
(* incomplete.                                                             *)
RoundTrip ==
    got # NULL => got = (IF Refused(msg) THEN Failed ELSE AsReceived(msg))
=============================================================================
